---------------------------- MODULE Spec2Model ----------------------------
(***************************************************************************)
(* Model of the weather lookup application (chriskeels/                    *)
(* cloudy-with-a-chance-of-AI): the search-input resolver                  *)
(* (utils/citySearch, processSearchInput), the 7-day forecast alignment    *)
(* loop of Homepage.fetchWeather, and the Homepage component's state       *)
(* under overlapping asynchronous searches.                                *)
(*                                                                         *)
(* JavaScript strings that the code inspects character by character        *)
(* (trim, toLowerCase, the numeric-only regular expressions) are modelled  *)
(* as sequences of one-character strings; Str joins such a sequence into   *)
(* the TLA+ string used as an object key or shown to the user.             *)
(* Instants are integer hours since the epoch (UTC); calendar dates are    *)
(* integer day numbers since 1970-01-01; temperatures are tenths of a      *)
(* degree Fahrenheit.                                                      *)
(***************************************************************************)
EXTENDS Integers, Sequences, FiniteSets, TLC

VARIABLES
    tables,                 \* citySearch's module-level objects CITY_NICKNAMES, STATE_CITIES
    rInput,                 \* resolver harness: the argument of processSearchInput
    rResult,                \* resolver harness: what the last call on rInput produced
    rFirst,                 \* resolver harness: what the first call on rInput produced
    rTrace,                 \* resolver harness: the arguments of the calls made, in order
    tz,                     \* browser's UTC offset in hours (local = UTC + tz)
    now,                    \* the clock: hours since the epoch, UTC
    aDays,                  \* aligner harness: data.forecast.forecastday
    aOut,                   \* aligner harness: what the alignment loop produced
    apiKey,                 \* import.meta.env.VITE_WEATHER_API_KEY is set
    currentWeather,         \* useState(null)
    forecast,               \* useState([])
    error,                  \* useState('')
    loading,                \* useState(false)
    stateConversionMessage, \* useState('')
    mounted,                \* the mount effect has run
    calls,                  \* every fetchWeather invocation so far, in issue order
    requests,               \* every provider request issued so far, in issue order
    testTime,               \* useState(null): the hour set with the time-of-day button
    timeOfDay,              \* useState(''): the period shown
    tCall,                  \* time harness: the last getTimeOfDay call and its result
    tShown,                 \* time harness: the periods shown so far, in order
    query,                  \* SearchBar: useState('')
    searched,               \* SearchBar harness: the arguments onSearch was called with
    sbEvents,               \* SearchBar harness: clicks and Enter presses handled
    wDays,                  \* week harness: apiForecastData
    wOut                    \* week harness: what generateFullWeekForecast returned

vars == <<tables, rInput, rResult, rFirst, rTrace, tz, now, aDays, aOut, apiKey, currentWeather, forecast,
          error, loading, stateConversionMessage, mounted, calls, requests,
          testTime, timeOfDay, tCall, tShown, query, searched, sbEvents, wDays, wOut>>

resolverVars == <<rInput, rResult, rFirst, rTrace>>
alignerVars == <<aDays, aOut>>
clockVars == <<tz, now>>
homepageVars == <<apiKey, currentWeather, forecast, error, loading,
                  stateConversionMessage, mounted, calls, requests>>
timeVars == <<testTime, timeOfDay, tCall, tShown>>
searchBarVars == <<query, searched, sbEvents>>
weekVars == <<wDays, wOut>>

-----------------------------------------------------------------------------
(* Bounds of the model.                                                    *)

\* Longest run of whitespace put before and after a search text.
MaxPad == 1
\* Math.random() is drawn from { k / RandDenom : k \in 0 .. RandDenom - 1 }.
RandDenom == 12

-----------------------------------------------------------------------------
(* The lookup tables of utils/citySearch.                                  *)

CITY_NICKNAMES ==
    "philly" :> "Philadelphia"
    @@ "nyc" :> "New York"
    @@ "la" :> "Los Angeles"
    @@ "sf" :> "San Francisco"
    @@ "chi" :> "Chicago"
    @@ "bos" :> "Boston"
    @@ "dc" :> "Washington DC"
    @@ "miami" :> "Miami, FL"
    @@ "vegas" :> "Las Vegas, NV"
    @@ "phoenix" :> "Phoenix, AZ"
    @@ "seattle" :> "Seattle, WA"
    @@ "portland" :> "Portland, OR"
    @@ "denver" :> "Denver, CO"
    @@ "atlanta" :> "Atlanta, GA"
    @@ "dallas" :> "Dallas, TX"
    @@ "houston" :> "Houston, TX"
    @@ "austin" :> "Austin, TX"
    @@ "nola" :> "New Orleans, LA"
    @@ "nashville" :> "Nashville, TN"
    @@ "charlotte" :> "Charlotte, NC"
    @@ "tampa" :> "Tampa, FL"
    @@ "orlando" :> "Orlando, FL"
    @@ "detroit" :> "Detroit, MI"
    @@ "columbus" :> "Columbus, OH"
    @@ "indy" :> "Indianapolis, IN"
    @@ "milwaukee" :> "Milwaukee, WI"
    @@ "memphis" :> "Memphis, TN"
    @@ "baltimore" :> "Baltimore, MD"
    @@ "sacramento" :> "Sacramento, CA"
    @@ "kansas city" :> "Kansas City, MO"
    @@ "salt lake city" :> "Salt Lake City, UT"
    @@ "tucson" :> "Tucson, AZ"
    @@ "fresno" :> "Fresno, CA"
    @@ "mesa" :> "Mesa, AZ"
    @@ "virginia beach" :> "Virginia Beach, VA"
    @@ "oklahoma city" :> "Oklahoma City, OK"
    @@ "raleigh" :> "Raleigh, NC"
    @@ "long beach" :> "Long Beach, CA"
    @@ "colorado springs" :> "Colorado Springs, CO"
    @@ "omaha" :> "Omaha, NE"
    @@ "buffalo" :> "Buffalo, NY"
    @@ "newark" :> "Newark, NJ"
    @@ "pittsburgh" :> "Pittsburgh, PA"

STATE_CITIES ==
    "alabama" :> <<"Birmingham", "Montgomery", "Mobile", "Huntsville">>
    @@ "alaska" :> <<"Anchorage", "Fairbanks", "Juneau">>
    @@ "arizona" :> <<"Phoenix", "Tucson", "Mesa", "Chandler", "Scottsdale">>
    @@ "arkansas" :> <<"Little Rock", "Fort Smith", "Fayetteville">>
    @@ "california" :> <<"Los Angeles", "San Francisco", "San Diego", "Sacramento", "Oakland", "Fresno">>
    @@ "colorado" :> <<"Denver", "Colorado Springs", "Aurora", "Boulder">>
    @@ "connecticut" :> <<"Hartford", "New Haven", "Stamford", "Bridgeport">>
    @@ "delaware" :> <<"Wilmington", "Dover", "Newark">>
    @@ "florida" :> <<"Miami", "Orlando", "Tampa", "Jacksonville", "Fort Lauderdale">>
    @@ "georgia" :> <<"Atlanta", "Augusta", "Columbus", "Savannah">>
    @@ "hawaii" :> <<"Honolulu", "Hilo", "Kailua">>
    @@ "idaho" :> <<"Boise", "Meridian", "Nampa">>
    @@ "illinois" :> <<"Chicago", "Aurora", "Rockford", "Joliet">>
    @@ "indiana" :> <<"Indianapolis", "Fort Wayne", "Evansville">>
    @@ "iowa" :> <<"Des Moines", "Cedar Rapids", "Davenport">>
    @@ "kansas" :> <<"Wichita", "Overland Park", "Kansas City", "Topeka">>
    @@ "kentucky" :> <<"Louisville", "Lexington", "Bowling Green">>
    @@ "louisiana" :> <<"New Orleans", "Baton Rouge", "Shreveport">>
    @@ "maine" :> <<"Portland", "Lewiston", "Bangor">>
    @@ "maryland" :> <<"Baltimore", "Frederick", "Rockville", "Gaithersburg">>
    @@ "massachusetts" :> <<"Boston", "Worcester", "Springfield", "Cambridge">>
    @@ "michigan" :> <<"Detroit", "Grand Rapids", "Warren", "Sterling Heights">>
    @@ "minnesota" :> <<"Minneapolis", "Saint Paul", "Rochester", "Duluth">>
    @@ "mississippi" :> <<"Jackson", "Gulfport", "Southaven">>
    @@ "missouri" :> <<"Kansas City", "Saint Louis", "Springfield", "Columbia">>
    @@ "montana" :> <<"Billings", "Missoula", "Great Falls">>
    @@ "nebraska" :> <<"Omaha", "Lincoln", "Bellevue">>
    @@ "nevada" :> <<"Las Vegas", "Henderson", "Reno", "Carson City">>
    @@ "new hampshire" :> <<"Manchester", "Nashua", "Concord">>
    @@ "new jersey" :> <<"Newark", "Jersey City", "Paterson", "Elizabeth">>
    @@ "new mexico" :> <<"Albuquerque", "Las Cruces", "Rio Rancho", "Santa Fe">>
    @@ "new york" :> <<"New York City", "Buffalo", "Rochester", "Yonkers", "Syracuse">>
    @@ "north carolina" :> <<"Charlotte", "Raleigh", "Greensboro", "Durham", "Winston-Salem">>
    @@ "north dakota" :> <<"Fargo", "Bismarck", "Grand Forks">>
    @@ "ohio" :> <<"Columbus", "Cleveland", "Cincinnati", "Toledo", "Akron">>
    @@ "oklahoma" :> <<"Oklahoma City", "Tulsa", "Norman">>
    @@ "oregon" :> <<"Portland", "Salem", "Eugene", "Gresham">>
    @@ "pennsylvania" :> <<"Philadelphia", "Pittsburgh", "Allentown", "Erie">>
    @@ "rhode island" :> <<"Providence", "Warwick", "Cranston">>
    @@ "south carolina" :> <<"Charleston", "Columbia", "North Charleston">>
    @@ "south dakota" :> <<"Sioux Falls", "Rapid City", "Aberdeen">>
    @@ "tennessee" :> <<"Nashville", "Memphis", "Knoxville", "Chattanooga">>
    @@ "texas" :> <<"Houston", "San Antonio", "Dallas", "Austin", "Fort Worth", "El Paso">>
    @@ "utah" :> <<"Salt Lake City", "West Valley City", "Provo", "West Jordan">>
    @@ "vermont" :> <<"Burlington", "Essex", "South Burlington">>
    @@ "virginia" :> <<"Virginia Beach", "Norfolk", "Chesapeake", "Richmond">>
    @@ "washington" :> <<"Seattle", "Spokane", "Tacoma", "Vancouver">>
    @@ "west virginia" :> <<"Charleston", "Huntington", "Morgantown">>
    @@ "wisconsin" :> <<"Milwaukee", "Madison", "Green Bay">>
    @@ "wyoming" :> <<"Cheyenne", "Casper", "Laramie">>
    @@ "ca" :> <<"Los Angeles", "San Francisco", "San Diego", "Sacramento">>
    @@ "ny" :> <<"New York City", "Buffalo", "Rochester", "Syracuse">>
    @@ "tx" :> <<"Houston", "San Antonio", "Dallas", "Austin">>
    @@ "fl" :> <<"Miami", "Orlando", "Tampa", "Jacksonville">>
    @@ "il" :> <<"Chicago", "Aurora", "Rockford">>
    @@ "pa" :> <<"Philadelphia", "Pittsburgh", "Allentown">>
    @@ "oh" :> <<"Columbus", "Cleveland", "Cincinnati">>
    @@ "ga" :> <<"Atlanta", "Augusta", "Columbus">>
    @@ "nc" :> <<"Charlotte", "Raleigh", "Greensboro">>
    @@ "mi" :> <<"Detroit", "Grand Rapids", "Warren">>
    @@ "nj" :> <<"Newark", "Jersey City", "Paterson">>
    @@ "va" :> <<"Virginia Beach", "Norfolk", "Richmond">>
    @@ "wa" :> <<"Seattle", "Spokane", "Tacoma">>
    @@ "az" :> <<"Phoenix", "Tucson", "Mesa">>
    @@ "ma" :> <<"Boston", "Worcester", "Springfield">>
    @@ "tn" :> <<"Nashville", "Memphis", "Knoxville">>
    @@ "in" :> <<"Indianapolis", "Fort Wayne", "Evansville">>
    @@ "mo" :> <<"Kansas City", "Saint Louis", "Springfield">>
    @@ "md" :> <<"Baltimore", "Frederick", "Rockville">>
    @@ "wi" :> <<"Milwaukee", "Madison", "Green Bay">>
    @@ "co" :> <<"Denver", "Colorado Springs", "Aurora">>
    @@ "mn" :> <<"Minneapolis", "Saint Paul", "Rochester">>
    @@ "sc" :> <<"Charleston", "Columbia", "North Charleston">>
    @@ "al" :> <<"Birmingham", "Montgomery", "Mobile">>
    @@ "la" :> <<"New Orleans", "Baton Rouge", "Shreveport">>
    @@ "ky" :> <<"Louisville", "Lexington", "Bowling Green">>
    @@ "or" :> <<"Portland", "Salem", "Eugene">>
    @@ "ok" :> <<"Oklahoma City", "Tulsa", "Norman">>
    @@ "ct" :> <<"Hartford", "New Haven", "Stamford">>
    @@ "ut" :> <<"Salt Lake City", "West Valley City", "Provo">>
    @@ "ia" :> <<"Des Moines", "Cedar Rapids", "Davenport">>
    @@ "nv" :> <<"Las Vegas", "Henderson", "Reno">>
    @@ "ar" :> <<"Little Rock", "Fort Smith", "Fayetteville">>
    @@ "ms" :> <<"Jackson", "Gulfport", "Southaven">>
    @@ "ks" :> <<"Wichita", "Overland Park", "Kansas City">>
    @@ "nm" :> <<"Albuquerque", "Las Cruces", "Santa Fe">>
    @@ "ne" :> <<"Omaha", "Lincoln", "Bellevue">>
    @@ "id" :> <<"Boise", "Meridian", "Nampa">>
    @@ "wv" :> <<"Charleston", "Huntington", "Morgantown">>
    @@ "hi" :> <<"Honolulu", "Hilo", "Kailua">>
    @@ "me" :> <<"Portland", "Lewiston", "Bangor">>
    @@ "nh" :> <<"Manchester", "Nashua", "Concord">>
    @@ "ri" :> <<"Providence", "Warwick", "Cranston">>
    @@ "mt" :> <<"Billings", "Missoula", "Great Falls">>
    @@ "de" :> <<"Wilmington", "Dover", "Newark">>
    @@ "sd" :> <<"Sioux Falls", "Rapid City", "Aberdeen">>
    @@ "nd" :> <<"Fargo", "Bismarck", "Grand Forks">>
    @@ "ak" :> <<"Anchorage", "Fairbanks", "Juneau">>
    @@ "vt" :> <<"Burlington", "Essex", "South Burlington">>
    @@ "wy" :> <<"Cheyenne", "Casper", "Laramie">>

TableKeyChars ==
    { <<"a", "k">>,
      <<"a", "l">>,
      <<"a", "l", "a", "b", "a", "m", "a">>,
      <<"a", "l", "a", "s", "k", "a">>,
      <<"a", "r">>,
      <<"a", "r", "i", "z", "o", "n", "a">>,
      <<"a", "r", "k", "a", "n", "s", "a", "s">>,
      <<"a", "t", "l", "a", "n", "t", "a">>,
      <<"a", "u", "s", "t", "i", "n">>,
      <<"a", "z">>,
      <<"b", "a", "l", "t", "i", "m", "o", "r", "e">>,
      <<"b", "o", "s">>,
      <<"b", "u", "f", "f", "a", "l", "o">>,
      <<"c", "a">>,
      <<"c", "a", "l", "i", "f", "o", "r", "n", "i", "a">>,
      <<"c", "h", "a", "r", "l", "o", "t", "t", "e">>,
      <<"c", "h", "i">>,
      <<"c", "o">>,
      <<"c", "o", "l", "o", "r", "a", "d", "o">>,
      <<"c", "o", "l", "o", "r", "a", "d", "o", " ", "s", "p", "r", "i", "n", "g", "s">>,
      <<"c", "o", "l", "u", "m", "b", "u", "s">>,
      <<"c", "o", "n", "n", "e", "c", "t", "i", "c", "u", "t">>,
      <<"c", "t">>,
      <<"d", "a", "l", "l", "a", "s">>,
      <<"d", "c">>,
      <<"d", "e">>,
      <<"d", "e", "l", "a", "w", "a", "r", "e">>,
      <<"d", "e", "n", "v", "e", "r">>,
      <<"d", "e", "t", "r", "o", "i", "t">>,
      <<"f", "l">>,
      <<"f", "l", "o", "r", "i", "d", "a">>,
      <<"f", "r", "e", "s", "n", "o">>,
      <<"g", "a">>,
      <<"g", "e", "o", "r", "g", "i", "a">>,
      <<"h", "a", "w", "a", "i", "i">>,
      <<"h", "i">>,
      <<"h", "o", "u", "s", "t", "o", "n">>,
      <<"i", "a">>,
      <<"i", "d">>,
      <<"i", "d", "a", "h", "o">>,
      <<"i", "l">>,
      <<"i", "l", "l", "i", "n", "o", "i", "s">>,
      <<"i", "n">>,
      <<"i", "n", "d", "i", "a", "n", "a">>,
      <<"i", "n", "d", "y">>,
      <<"i", "o", "w", "a">>,
      <<"k", "a", "n", "s", "a", "s">>,
      <<"k", "a", "n", "s", "a", "s", " ", "c", "i", "t", "y">>,
      <<"k", "e", "n", "t", "u", "c", "k", "y">>,
      <<"k", "s">>,
      <<"k", "y">>,
      <<"l", "a">>,
      <<"l", "o", "n", "g", " ", "b", "e", "a", "c", "h">>,
      <<"l", "o", "u", "i", "s", "i", "a", "n", "a">>,
      <<"m", "a">>,
      <<"m", "a", "i", "n", "e">>,
      <<"m", "a", "r", "y", "l", "a", "n", "d">>,
      <<"m", "a", "s", "s", "a", "c", "h", "u", "s", "e", "t", "t", "s">>,
      <<"m", "d">>,
      <<"m", "e">>,
      <<"m", "e", "m", "p", "h", "i", "s">>,
      <<"m", "e", "s", "a">>,
      <<"m", "i">>,
      <<"m", "i", "a", "m", "i">>,
      <<"m", "i", "c", "h", "i", "g", "a", "n">>,
      <<"m", "i", "l", "w", "a", "u", "k", "e", "e">>,
      <<"m", "i", "n", "n", "e", "s", "o", "t", "a">>,
      <<"m", "i", "s", "s", "i", "s", "s", "i", "p", "p", "i">>,
      <<"m", "i", "s", "s", "o", "u", "r", "i">>,
      <<"m", "n">>,
      <<"m", "o">>,
      <<"m", "o", "n", "t", "a", "n", "a">>,
      <<"m", "s">>,
      <<"m", "t">>,
      <<"n", "a", "s", "h", "v", "i", "l", "l", "e">>,
      <<"n", "c">>,
      <<"n", "d">>,
      <<"n", "e">>,
      <<"n", "e", "b", "r", "a", "s", "k", "a">>,
      <<"n", "e", "v", "a", "d", "a">>,
      <<"n", "e", "w", " ", "h", "a", "m", "p", "s", "h", "i", "r", "e">>,
      <<"n", "e", "w", " ", "j", "e", "r", "s", "e", "y">>,
      <<"n", "e", "w", " ", "m", "e", "x", "i", "c", "o">>,
      <<"n", "e", "w", " ", "y", "o", "r", "k">>,
      <<"n", "e", "w", "a", "r", "k">>,
      <<"n", "h">>,
      <<"n", "j">>,
      <<"n", "m">>,
      <<"n", "o", "l", "a">>,
      <<"n", "o", "r", "t", "h", " ", "c", "a", "r", "o", "l", "i", "n", "a">>,
      <<"n", "o", "r", "t", "h", " ", "d", "a", "k", "o", "t", "a">>,
      <<"n", "v">>,
      <<"n", "y">>,
      <<"n", "y", "c">>,
      <<"o", "h">>,
      <<"o", "h", "i", "o">>,
      <<"o", "k">>,
      <<"o", "k", "l", "a", "h", "o", "m", "a">>,
      <<"o", "k", "l", "a", "h", "o", "m", "a", " ", "c", "i", "t", "y">>,
      <<"o", "m", "a", "h", "a">>,
      <<"o", "r">>,
      <<"o", "r", "e", "g", "o", "n">>,
      <<"o", "r", "l", "a", "n", "d", "o">>,
      <<"p", "a">>,
      <<"p", "e", "n", "n", "s", "y", "l", "v", "a", "n", "i", "a">>,
      <<"p", "h", "i", "l", "l", "y">>,
      <<"p", "h", "o", "e", "n", "i", "x">>,
      <<"p", "i", "t", "t", "s", "b", "u", "r", "g", "h">>,
      <<"p", "o", "r", "t", "l", "a", "n", "d">>,
      <<"r", "a", "l", "e", "i", "g", "h">>,
      <<"r", "h", "o", "d", "e", " ", "i", "s", "l", "a", "n", "d">>,
      <<"r", "i">>,
      <<"s", "a", "c", "r", "a", "m", "e", "n", "t", "o">>,
      <<"s", "a", "l", "t", " ", "l", "a", "k", "e", " ", "c", "i", "t", "y">>,
      <<"s", "c">>,
      <<"s", "d">>,
      <<"s", "e", "a", "t", "t", "l", "e">>,
      <<"s", "f">>,
      <<"s", "o", "u", "t", "h", " ", "c", "a", "r", "o", "l", "i", "n", "a">>,
      <<"s", "o", "u", "t", "h", " ", "d", "a", "k", "o", "t", "a">>,
      <<"t", "a", "m", "p", "a">>,
      <<"t", "e", "n", "n", "e", "s", "s", "e", "e">>,
      <<"t", "e", "x", "a", "s">>,
      <<"t", "n">>,
      <<"t", "u", "c", "s", "o", "n">>,
      <<"t", "x">>,
      <<"u", "t">>,
      <<"u", "t", "a", "h">>,
      <<"v", "a">>,
      <<"v", "e", "g", "a", "s">>,
      <<"v", "e", "r", "m", "o", "n", "t">>,
      <<"v", "i", "r", "g", "i", "n", "i", "a">>,
      <<"v", "i", "r", "g", "i", "n", "i", "a", " ", "b", "e", "a", "c", "h">>,
      <<"v", "t">>,
      <<"w", "a">>,
      <<"w", "a", "s", "h", "i", "n", "g", "t", "o", "n">>,
      <<"w", "e", "s", "t", " ", "v", "i", "r", "g", "i", "n", "i", "a">>,
      <<"w", "i">>,
      <<"w", "i", "s", "c", "o", "n", "s", "i", "n">>,
      <<"w", "v">>,
      <<"w", "y">>,
      <<"w", "y", "o", "m", "i", "n", "g">> }
-----------------------------------------------------------------------------
(* JavaScript string primitives.                                           *)

RECURSIVE Str(_)
\* The JavaScript string with the given characters.
Str(cs) == IF cs = <<>> THEN "" ELSE Head(cs) \o Str(Tail(cs))

\* Characters matched by \s and stripped by String.prototype.trim.
WhitespaceChars == {" ", "\t"}
\* Characters matched by \d.
DigitChars == {"0", "1", "2", "3", "4", "5", "6", "7", "8", "9"}
\* The other members of the character class [\d.,\-+()].
NumericPunctChars == {".", ",", "-", "+", "(", ")"}

UpperToLower ==
    "A" :> "a" @@ "B" :> "b" @@ "C" :> "c" @@ "D" :> "d" @@ "E" :> "e"
    @@ "F" :> "f" @@ "G" :> "g" @@ "H" :> "h" @@ "I" :> "i" @@ "J" :> "j"
    @@ "K" :> "k" @@ "L" :> "l" @@ "M" :> "m" @@ "N" :> "n" @@ "O" :> "o"
    @@ "P" :> "p" @@ "Q" :> "q" @@ "R" :> "r" @@ "S" :> "s" @@ "T" :> "t"
    @@ "U" :> "u" @@ "V" :> "v" @@ "W" :> "w" @@ "X" :> "x" @@ "Y" :> "y"
    @@ "Z" :> "z"

\* String.prototype.toLowerCase
toLowerCase(cs) ==
    [i \in 1..Len(cs) |-> IF cs[i] \in DOMAIN UpperToLower THEN UpperToLower[cs[i]] ELSE cs[i]]

RECURSIVE trimStart(_)
trimStart(cs) ==
    IF cs # <<>> /\ Head(cs) \in WhitespaceChars THEN trimStart(Tail(cs)) ELSE cs

RECURSIVE trimEnd(_)
trimEnd(cs) ==
    IF cs # <<>> /\ cs[Len(cs)] \in WhitespaceChars
    THEN trimEnd(SubSeq(cs, 1, Len(cs) - 1))
    ELSE cs

\* String.prototype.trim
trim(cs) == trimEnd(trimStart(cs))

\* input.replace(/\s/g, '')
removeWhitespace(cs) == SelectSeq(cs, LAMBDA c : c \notin WhitespaceChars)

\* A plausible slip: the character class without the parentheses.
isNumericOnly_NoParens(cs) ==
    LET cleanedInput == removeWhitespace(cs)
    IN  /\ \A i \in 1..Len(cleanedInput) :
              cleanedInput[i] \in DigitChars \cup (NumericPunctChars \ {"(", ")"})
        /\ \E i \in 1..Len(cleanedInput) : cleanedInput[i] \in DigitChars

\* A plausible slip: the test for at least one digit left out.
isNumericOnly_NoDigitTest(cs) ==
    LET cleanedInput == removeWhitespace(cs)
    IN  \A i \in 1..Len(cleanedInput) : cleanedInput[i] \in DigitChars \cup NumericPunctChars

\* isNumericOnly: /^[\d.,\-+()]*$/.test(cleaned) && /\d/.test(cleaned)
isNumericOnly(cs) ==
    LET cleanedInput == removeWhitespace(cs)
    IN  /\ \A i \in 1..Len(cleanedInput) : cleanedInput[i] \in DigitChars \cup NumericPunctChars
        /\ \E i \in 1..Len(cleanedInput) : cleanedInput[i] \in DigitChars

-----------------------------------------------------------------------------
(* JavaScript values that are not strings, as they appear in results.      *)

\* The value undefined.
Undefined == "<undefined>"
\* Property names every object literal inherits from Object.prototype.
ObjectPrototypeKeys ==
    {"constructor", "__proto__", "hasOwnProperty", "isPrototypeOf",
     "propertyIsEnumerable", "toLocaleString", "toString", "valueOf",
     "__defineGetter__", "__defineSetter__", "__lookupGetter__", "__lookupSetter__"}
\* The (truthy, non-string) value of an inherited property.
InheritedValue(key) == "<Object.prototype." \o key \o ">"
NonStringValues == {Undefined} \cup {InheritedValue(k) : k \in ObjectPrototypeKeys}

\* obj[key] is truthy: own values are non-empty strings or arrays, inherited
\* ones are functions or objects.
HasTruthyProperty(obj, key) == key \in DOMAIN obj \/ key \in ObjectPrototypeKeys

\* obj[key] for a table whose own values are strings.
GetProperty(obj, key) ==
    IF key \in DOMAIN obj THEN obj[key]
    ELSE IF key \in ObjectPrototypeKeys THEN InheritedValue(key)
    ELSE Undefined

\* arr[index], index counted from 0; undefined outside the array.
ArrayGet(arr, index) == IF index \in 0..(Len(arr) - 1) THEN arr[index + 1] ELSE Undefined

\* A plausible slip: Math.ceil in place of Math.floor.
RandomIndex_Ceil(random, length) == (random * length + RandDenom - 1) \div RandDenom

\* Math.floor(Math.random() * length), Math.random() = random / RandDenom.
RandomIndex(random, length) == (random * length) \div RandDenom

\* cities[Math.floor(Math.random() * cities.length)] for cities = STATE_CITIES[key];
\* an inherited value is not an array of city names and indexes to undefined.
selectedCity(key, random) ==
    IF key \in DOMAIN tables.STATE_CITIES
    THEN ArrayGet(tables.STATE_CITIES[key],
                  RandomIndex(random, Len(tables.STATE_CITIES[key])))
    ELSE Undefined

\* The values Math.random() can take, as numerators over RandDenom: [0, 1).
RandomDraws == 0..(RandDenom - 1)

NumbersMessage == "Please enter a city or state name, not numbers."

\* const cleanInput = input.trim().toLowerCase()
cleanInput(input) == toLowerCase(trim(input))

\* A plausible slip: original taken from the normalised text.
nicknameReturn_CleanOriginal(input) ==
    [city |-> GetProperty(tables.CITY_NICKNAMES, Str(cleanInput(input))),
     type |-> "nickname",
     original |-> Str(cleanInput(input))]

\* The object returned on a nickname hit.
nicknameReturn(input) ==
    [city |-> GetProperty(tables.CITY_NICKNAMES, Str(cleanInput(input))),
     type |-> "nickname",
     original |-> Str(trim(input))]

\* The object returned on a state hit.
stateReturn(input, random) ==
    [city |-> selectedCity(Str(cleanInput(input)), random),
     type |-> "state",
     original |-> Str(trim(input))]

\* The object returned when neither table has the text.
directReturn(input) == [city |-> Str(trim(input)), type |-> "direct"]

\* A plausible slip: the state table read before the nickname table.
processSearchInput_StateFirst(input, random) ==
    IF input = <<>>
    THEN [outcome |-> "return", value |-> [city |-> Str(input), type |-> "direct"],
          numericChecked |-> FALSE, consulted |-> <<>>]
    ELSE IF isNumericOnly(cleanInput(input))
    THEN [outcome |-> "throw", message |-> NumbersMessage,
          numericChecked |-> TRUE, consulted |-> <<>>]
    ELSE IF HasTruthyProperty(tables.STATE_CITIES, Str(cleanInput(input)))
    THEN [outcome |-> "return", value |-> stateReturn(input, random),
          numericChecked |-> TRUE, consulted |-> <<"STATE_CITIES">>]
    ELSE IF HasTruthyProperty(tables.CITY_NICKNAMES, Str(cleanInput(input)))
    THEN [outcome |-> "return", value |-> nicknameReturn(input),
          numericChecked |-> TRUE, consulted |-> <<"STATE_CITIES", "CITY_NICKNAMES">>]
    ELSE [outcome |-> "return", value |-> directReturn(input),
          numericChecked |-> TRUE, consulted |-> <<"STATE_CITIES", "CITY_NICKNAMES">>]

(***************************************************************************)
(* processSearchInput(input), input a string, with the value drawn from    *)
(* Math.random().  The result records how the call ended (outcome), the    *)
(* returned object (value) or the raised Error's message, and which steps  *)
(* the call went through: whether isNumericOnly was applied and which      *)
(* tables were read, in order.                                             *)
(***************************************************************************)
processSearchInput(input, random) ==
    IF input = <<>>
    THEN [outcome |-> "return", value |-> [city |-> Str(input), type |-> "direct"],
          numericChecked |-> FALSE, consulted |-> <<>>]
    ELSE IF isNumericOnly(cleanInput(input))
    THEN [outcome |-> "throw", message |-> NumbersMessage,
          numericChecked |-> TRUE, consulted |-> <<>>]
    ELSE IF HasTruthyProperty(tables.CITY_NICKNAMES, Str(cleanInput(input)))
    THEN [outcome |-> "return", value |-> nicknameReturn(input),
          numericChecked |-> TRUE, consulted |-> <<"CITY_NICKNAMES">>]
    ELSE IF HasTruthyProperty(tables.STATE_CITIES, Str(cleanInput(input)))
    THEN [outcome |-> "return", value |-> stateReturn(input, random),
          numericChecked |-> TRUE, consulted |-> <<"CITY_NICKNAMES", "STATE_CITIES">>]
    ELSE [outcome |-> "return", value |-> directReturn(input),
          numericChecked |-> TRUE, consulted |-> <<"CITY_NICKNAMES", "STATE_CITIES">>]

\* A plausible slip: a text found in neither table is remembered as its own
\* nickname, to spare the second lookup next time.
tablesAfterCall_CacheDirect(input, random) ==
    LET res == processSearchInput(input, random)
    IN  IF res.outcome = "return" /\ res.value.type = "direct" /\ input # <<>>
        THEN [tables EXCEPT !.CITY_NICKNAMES =
                 (Str(cleanInput(input)) :> Str(trim(input))) @@ tables.CITY_NICKNAMES]
        ELSE tables

\* A plausible slip: the chosen city taken out of the state's list
\* (cities.splice(index, 1)[0]).
tablesAfterCall_Splice(input, random) ==
    LET res == processSearchInput(input, random)
        key == Str(cleanInput(input))
    IN  IF res.outcome = "return" /\ res.value.type = "state"
        THEN LET cities == tables.STATE_CITIES[key]
                 index == RandomIndex(random, Len(cities)) + 1
             IN  [tables EXCEPT !.STATE_CITIES[key] =
                     [k \in 1..(Len(cities) - 1) |->
                         IF k < index THEN cities[k] ELSE cities[k + 1]]]
        ELSE tables

\* The module-level tables after a call of processSearchInput: the function
\* only reads CITY_NICKNAMES and STATE_CITIES and returns strings taken from
\* them, so both are as they were.
tablesAfterCall(input, random) == tables

\* The tables as the module's source text writes them.
SourceTables == [CITY_NICKNAMES |-> CITY_NICKNAMES, STATE_CITIES |-> STATE_CITIES]

-----------------------------------------------------------------------------
(* Search texts the resolver is applied to.                                *)

\* Texts that are not keys of either table.
OtherCores ==
    { <<>>,
      <<"1", "2", "3", "4", "5">>,
      <<"(", "5", "5", "5", ")", " ", "1", "2", "3", "-", "4", "5", "6", "7">>,
      <<"3", ".", "1", "4">>,
      <<"+", "1">>,
      <<"-">>,
      <<"(", ")">>,
      <<"9", "0", "2", "1", "0", " ", "c", "a">>,
      <<"p", "a", "r", "i", "s">>,
      <<"s", "t", ".", " ", "l", "o", "u", "i", "s">>,
      <<"l", "a", "\t", "x">>,
      <<"a", "u", "t", "o", ":", "i", "p">>,
      <<"c", "o", "n", "s", "t", "r", "u", "c", "t", "o", "r">>,
      <<"_", "_", "p", "r", "o", "t", "o", "_", "_">>,
      <<"t", "o", "S", "t", "r", "i", "n", "g">>,
      <<"v", "a", "l", "u", "e", "O", "f">> }

InputCores == TableKeyChars \cup OtherCores

toUpperChar(c) ==
    IF \E u \in DOMAIN UpperToLower : UpperToLower[u] = c
    THEN CHOOSE u \in DOMAIN UpperToLower : UpperToLower[u] = c
    ELSE c

\* The letter cases a text is typed in: as written, Capitalised, UPPER.
CaseStyles == {"asis", "capital", "upper"}
Cased(cs, style) ==
    [i \in 1..Len(cs) |->
        IF style = "upper" \/ (style = "capital" /\ i = 1) THEN toUpperChar(cs[i]) ELSE cs[i]]

RECURSIVE PadsOfLen(_)
PadsOfLen(n) ==
    IF n = 0 THEN {<<>>}
    ELSE {<<w>> \o p : w \in WhitespaceChars, p \in PadsOfLen(n - 1)}
Pads == UNION {PadsOfLen(n) : n \in 0..MaxPad}

SearchInputs ==
    {pre \o Cased(core, style) \o post :
        pre \in Pads, post \in Pads, core \in InputCores, style \in CaseStyles}

\* rResult before processSearchInput has been called on rInput.
NotCalled == [outcome |-> "none"]

-----------------------------------------------------------------------------
(* Dates.  No daylight-saving change falls inside the modelled window, so  *)
(* local time is UTC + offset throughout.                                  *)

\* Day number of 2024-03-01, a Friday.
BaseDay == 19783
\* Provider lists start up to RangeSlack days before or after today.
RangeSlack == 2
\* Arbitrary (unordered, possibly repeating) provider lists up to this length.
MaxShortLen == 2

\* new Date("YYYY-MM-DD"): a date-only ISO string is read as midnight UTC.
parseDate(date) == date * 24

\* The local calendar date (day number) of instant t at UTC offset offset.
localDate(t, offset) == (t + offset) \div 24

\* d.setHours(0, 0, 0, 0): midnight, local time, of d's local calendar date.
setHoursZero(t, offset) == localDate(t, offset) * 24 - offset

\* d.setDate(d.getDate() + i): the same local time i calendar days later.
addDays(t, i) == t + 24 * i

WeekdayNames ==
    <<"Sunday", "Monday", "Tuesday", "Wednesday", "Thursday", "Friday", "Saturday">>

\* Weekday name of a calendar date; 1970-01-01 (day 0) was a Thursday.
weekdayOfDate(date) == WeekdayNames[((date + 4) % 7) + 1]

\* d.toLocaleDateString('en-US', {weekday: 'long'})
weekdayLong(t, offset) == weekdayOfDate(localDate(t, offset))

\* Math.round of a temperature given in tenths: floor(x + 0.5).
MathRound(tenths) == (tenths + 5) \div 10

\* The icon field of a record that has none: a one-element sequence holding
\* undefined, where a string is a sequence of characters.
MissingIcon == <<Undefined>>

\* typeof v === 'string'
isString(v) == v # MissingIcon

\* `${v}`: a string as it is, undefined as the text "undefined".
templateString(v) == IF isString(v) THEN Str(v) ELSE "undefined"

\* `https:${icon}`
iconUrl(icon) == "https:" \o templateString(icon)

\* const today = new Date(); today.setHours(0, 0, 0, 0)
todayMidnight(clock, offset) == setHoursZero(clock, offset)

\* The instant targetDate of loop iteration i.
targetDate(clock, offset, i) == addDays(todayMidnight(clock, offset), i)

\* The predicate of forecastday.find: the record's date, parsed and reset to
\* local midnight, is the same instant as targetDate.
dayMatches(day, target, offset) == setHoursZero(parseDate(day.date), offset) = target

\* Array.prototype.find: index (from 1) of the first matching record, 0 if none.
matchingDay(days, target, offset) ==
    LET hits == {k \in 1..Len(days) : dayMatches(days[k], target, offset)}
    IN  IF hits = {} THEN 0 ELSE CHOOSE k \in hits : \A j \in hits : k <= j

\* i === 0 ? 'Today' : targetDate.toLocaleDateString('en-US', {weekday: 'long'})
dayName(clock, offset, i) ==
    IF i = 0 THEN "Today" ELSE weekdayLong(targetDate(clock, offset, i), offset)

\* The object pushed for a provider record under a label.
forecastEntry(label, day) ==
    [day |-> label,
     temp |-> MathRound(day.day.avgtemp_f),
     condition |-> day.day.condition.text,
     icon |-> iconUrl(day.day.condition.icon)]

\* A plausible slip: the label taken from the date of the record used.
alignedEntry_LabelFromRecord(clock, offset, days, i) ==
    LET m == matchingDay(days, targetDate(clock, offset, i), offset)
        used == IF m # 0 THEN days[m] ELSE days[Len(days)]
    IN  forecastEntry(IF i = 0 THEN "Today" ELSE weekdayLong(parseDate(used.date), offset),
                      used)

\* What iteration i pushes; days is non-empty.
alignedEntry(clock, offset, days, i) ==
    LET m == matchingDay(days, targetDate(clock, offset, i), offset)
    IN  IF m # 0
        THEN forecastEntry(dayName(clock, offset, i), days[m])
        ELSE forecastEntry(dayName(clock, offset, i), days[Len(days)])

\* A plausible slip: an entry is pushed only for the offsets that have a record.
forecast7Days_OnlyMatches(clock, offset, days) ==
    IF days = <<>>
    THEN [outcome |-> "throw"]
    ELSE [outcome |-> "ok",
          forecast |->
            LET all == [k \in 1..7 |-> alignedEntry(clock, offset, days, k - 1)]
                hit == {k \in 1..7 :
                          matchingDay(days, targetDate(clock, offset, k - 1), offset) # 0}
                n == Cardinality(hit)
                kth(j) == CHOOSE k \in hit : Cardinality({h \in hit : h < k}) = j - 1
            IN  [j \in 1..n |-> all[kth(j)]]]

\* A plausible slip: the fallback read with optional chaining, so that an
\* empty list yields an empty forecast in place of a fault.
forecast7Days_EmptyOk(clock, offset, days) ==
    IF days = <<>>
    THEN [outcome |-> "ok", forecast |-> <<>>]
    ELSE [outcome |-> "ok",
          forecast |-> [k \in 1..7 |-> alignedEntry(clock, offset, days, k - 1)]]

(***************************************************************************)
(* The alignment loop of fetchWeather over data.forecast.forecastday.      *)
(* With an empty list no record matches, lastAvailableDay is undefined and *)
(* reading lastAvailableDay.day raises a TypeError in iteration 0.         *)
(***************************************************************************)
forecast7Days(clock, offset, days) ==
    IF days = <<>>
    THEN [outcome |-> "throw"]
    ELSE [outcome |-> "ok",
          forecast |-> [k \in 1..7 |-> alignedEntry(clock, offset, days, k - 1)]]

-----------------------------------------------------------------------------
(* Provider data the alignment is applied to.                              *)

ConditionTexts == <<"Sunny", "Partly cloudy", "Light rain">>

\* Icon fields the provider sends: a protocol-relative path, a full https
\* URL, and none.
IconPaths ==
    << <<"/", "/", "c", "d", "n", ".", "i", "o", "/", "1", "1", "3", ".", "p", "n", "g">>,
       <<"h", "t", "t", "p", "s", ":", "/", "/", "c", "d", "n", ".", "i", "o", "/",
         "1", "1", "6", ".", "p", "n", "g">>,
       MissingIcon >>

\* The provider's record for a calendar date; variant tells apart two
\* records of the same date.
ForecastDay(date, variant) ==
    [date |-> date,
     day |-> [avgtemp_f |-> 600 + 17 * (date - BaseDay) + 5 * variant,
              condition |-> [text |-> ConditionTexts[((date + variant) % 3) + 1],
                             icon |-> IconPaths[((date + 2 * variant) % 3) + 1]]]]

\* Browser UTC offsets, in hours.
TimeZones == (0 - 12)..14
\* Instants the clock is read at: early, midday and late on BaseDay (UTC).
ClockInstants == {BaseDay * 24, BaseDay * 24 + 12, BaseDay * 24 + 23}
\* Lengths of the provider's list.
ForecastLengths == {1, 3, 7, 10, 14}

\* A run of n consecutive dates from start, ascending.
Ascending(start, n) == [k \in 1..n |-> ForecastDay(start + k - 1, 0)]
Reversed(s) == [k \in 1..Len(s) |-> s[Len(s) + 1 - k]]
Rotated(s) == [k \in 1..Len(s) |-> s[(k % Len(s)) + 1]]

\* Contiguous provider lists around the calendar date today, in three orders.
RangeLists(today) ==
    UNION {{Ascending(today + s, n), Reversed(Ascending(today + s, n)),
            Rotated(Ascending(today + s, n))} :
           s \in (0 - RangeSlack)..RangeSlack, n \in ForecastLengths}

RECURSIVE SeqsOfLen(_, _)
SeqsOfLen(S, n) ==
    IF n = 0 THEN {<<>>}
    ELSE {<<x>> \o s : x \in S, s \in SeqsOfLen(S, n - 1)}

\* Short lists of arbitrary records dated within the window and just outside it.
ShortLists(today) ==
    UNION {SeqsOfLen({ForecastDay(today + d, v) : d \in {0 - 1, 0, 1, 7}, v \in {0, 1}}, n) :
           n \in 1..MaxShortLen}

DayLists(today) == RangeLists(today) \cup ShortLists(today)

\* aOut before the alignment has run.
NotAligned == [outcome |-> "none"]

-----------------------------------------------------------------------------
(* The Homepage component (pages/Homepage.jsx).                            *)

\* fetchWeather invocations modelled: the mount effect's and the user's searches.
MaxCalls == 2

ApiKeyMessage == "Weather API key not found. Please check your environment variables."
NotFoundMessage == "City not found"
FailedMessage == "Failed to fetch weather data."

\* The sentinel that asks the provider to locate the caller by IP address.
AutoIp == <<"a", "u", "t", "o", ":", "i", "p">>

\* Texts a SearchBar hands to onSearch: non-blank (both SearchBar variants
\* refuse a blank query; one passes the text as typed, the other trimmed and
\* only when it is not numeric-only).
OnSearchTexts ==
    { AutoIp,
      <<"L", "A">>,
      <<"r", "i", " ">>,
      <<"P", "a", "r", "i", "s">>,
      <<"3", ".", "1", "4">> }

\* The message shown after a conversion.
conversionMessage(conversionInfo) ==
    IF conversionInfo.type = "nickname"
    THEN "Found city nickname \"" \o conversionInfo.original
            \o "\" - showing weather for " \o conversionInfo.city
    ELSE IF conversionInfo.type = "state"
    THEN "Found state \"" \o conversionInfo.original
            \o "\" - showing weather for " \o conversionInfo.city
    ELSE ""

\* A plausible slip: the sentinel goes through processSearchInput like any text.
resolveSearchInput_NoBypass(searchInput, random) ==
    [processed |-> TRUE] @@ processSearchInput(searchInput, random)

(***************************************************************************)
(* The input-resolution step of fetchWeather: the sentinel is passed on    *)
(* as it is, any other text goes through processSearchInput.  processed    *)
(* tells that processSearchInput was called.                               *)
(***************************************************************************)
resolveSearchInput(searchInput, random) ==
    IF searchInput = AutoIp
    THEN [processed |-> FALSE, outcome |-> "return",
          value |-> [city |-> Str(searchInput), type |-> "direct"],
          numericChecked |-> FALSE, consulted |-> <<>>]
    ELSE [processed |-> TRUE] @@ processSearchInput(searchInput, random)

\* Provider lists the Homepage receives: none, today only, three days from today.
ResponseDayLists(today) == {<<>>, Ascending(today, 1), Ascending(today, 3)}

\* What the provider answers: the request fails or its body does not parse
\* ("rejected"), the body carries an error ("error"), the body lacks
\* location/current ("malformed"), or it is a forecast ("data").
Responses(q, today) ==
    {[kind |-> "rejected"], [kind |-> "error"], [kind |-> "malformed"]}
    \cup {[kind |-> "data", name |-> q, forecastday |-> days] :
            days \in ResponseDayLists(today)}

\* The object handed to setCurrentWeather.
currentWeatherOf(data) ==
    [location |-> data.name \o ", region", icon |-> iconUrl(IconPaths[1])]

\* useState(null)
Null == [location |-> "<null>"]

\* The response field of a call whose request has not settled (or that sent none).
NoResponse == [kind |-> "none"]

\* The log entry of a call: its argument, what input resolution did and
\* whether the call starts while another one is in flight.
callEntry(searchInput, res) ==
    [input |-> Str(searchInput), processed |-> res.processed,
     numericChecked |-> res.numericChecked, consulted |-> res.consulted,
     overlaps |-> \E id \in 1..Len(calls) : calls[id].pc = "awaiting",
     response |-> NoResponse]

\* if (!API_KEY) { setError(...); setLoading(false); return }
MissingApiKey(searchInput) ==
    /\ error' = ApiKeyMessage
    /\ loading' = FALSE
    /\ stateConversionMessage' = ""
    /\ calls' = Append(calls, [input |-> Str(searchInput), processed |-> FALSE,
                               numericChecked |-> FALSE, consulted |-> <<>>,
                               overlaps |-> FALSE,
                               response |-> NoResponse,
                               pc |-> "done", end |-> "nokey",
                               request |-> 0, message |-> ""])
    /\ UNCHANGED <<requests, currentWeather, forecast>>

\* A plausible slip: a rejected input also clears what is displayed, as a
\* provider error does.
RejectInput_ClearsDisplay(searchInput, res) ==
    /\ error' = res.message
    /\ loading' = FALSE
    /\ stateConversionMessage' = ""
    /\ currentWeather' = Null
    /\ forecast' = <<>>
    /\ calls' = Append(calls, callEntry(searchInput, res)
                              @@ [pc |-> "done", end |-> "invalid",
                                  request |-> 0, message |-> ""])
    /\ UNCHANGED requests

\* catch (validationError) { setError(validationError.message); setLoading(false); return }
RejectInput(searchInput, res) ==
    /\ error' = res.message
    /\ loading' = FALSE
    /\ stateConversionMessage' = ""
    /\ calls' = Append(calls, callEntry(searchInput, res)
                              @@ [pc |-> "done", end |-> "invalid",
                                  request |-> 0, message |-> ""])
    /\ UNCHANGED <<requests, currentWeather, forecast>>

\* The conversion message and the request: fetch(`...&q=${cityToSearch}&days=10`).
SendRequest(searchInput, res) ==
    LET \* conversionInfo && conversionInfo.type !== 'direct'
        shown == IF res.processed THEN conversionMessage(res.value) ELSE ""
    IN  /\ error' = ""
        /\ loading' = TRUE
        /\ stateConversionMessage' = shown
        /\ requests' = Append(requests, [call |-> Len(calls) + 1, q |-> res.value.city])
        /\ calls' = Append(calls, callEntry(searchInput, res)
                                  @@ [pc |-> "awaiting", end |-> "",
                                      request |-> Len(requests) + 1,
                                      message |-> shown])
        /\ UNCHANGED <<currentWeather, forecast>>

(***************************************************************************)
(* fetchWeather(searchInput) up to its first await: the state resets, the  *)
(* API-key check, input resolution, the conversion message and the         *)
(* request.  The call is logged with what it did.                          *)
(***************************************************************************)
FetchWeatherStart(searchInput, random) ==
    IF ~apiKey
    THEN /\ MissingApiKey(searchInput)
         /\ UNCHANGED tables
    ELSE LET res == resolveSearchInput(searchInput, random)
         IN  /\ tables' = IF res.processed THEN tablesAfterCall(searchInput, random)
                          ELSE tables
             /\ IF res.outcome = "throw"
                THEN RejectInput(searchInput, res)
                ELSE SendRequest(searchInput, res)

\* useEffect(() => { fetchWeather('auto:ip') }, [])
Mount ==
    /\ ~mounted
    /\ mounted' = TRUE
    /\ FetchWeatherStart(AutoIp, 0)
    /\ UNCHANGED apiKey
    /\ UNCHANGED <<resolverVars, alignerVars, clockVars>>
    /\ UNCHANGED <<timeVars, searchBarVars, weekVars>>

\* <SearchBar onSearch={fetchWeather} />: the user submits a search.
Search ==
    /\ mounted
    /\ Len(calls) < MaxCalls
    /\ \E searchInput \in OnSearchTexts, random \in RandomDraws :
           FetchWeatherStart(searchInput, random)
    /\ UNCHANGED <<apiKey, mounted>>
    /\ UNCHANGED <<resolverVars, alignerVars, clockVars>>
    /\ UNCHANGED <<timeVars, searchBarVars, weekVars>>

\* The log after call id has ended in the given way on the given response.
callDone(id, response, how) ==
    [calls EXCEPT ![id].pc = "done", ![id].end = how, ![id].response = response]

\* A plausible slip: loading reset at the end of the try block, not in finally.
ResumeFailed_StillLoading(id, response) ==
    /\ error' = FailedMessage
    /\ calls' = callDone(id, response, "failed")
    /\ UNCHANGED <<loading, currentWeather, forecast, stateConversionMessage>>

\* A plausible slip: the catch block only logs the error.
ResumeFailed_LogOnly(id, response) ==
    /\ loading' = FALSE
    /\ calls' = callDone(id, response, "failed")
    /\ UNCHANGED <<error, currentWeather, forecast, stateConversionMessage>>

\* fetch or res.json() rejects, or the body lacks location/current: the
\* catch block and then finally.
ResumeFailed(id, response) ==
    /\ error' = FailedMessage
    /\ loading' = FALSE
    /\ calls' = callDone(id, response, "failed")
    /\ UNCHANGED <<currentWeather, forecast, stateConversionMessage>>

\* A plausible slip: the conversion message left as it is on a provider error.
ResumeNotFound_KeepMessage(id, response) ==
    /\ error' = NotFoundMessage
    /\ currentWeather' = Null
    /\ forecast' = <<>>
    /\ loading' = FALSE
    /\ calls' = callDone(id, response, "notfound")
    /\ UNCHANGED stateConversionMessage

\* if (data.error) { ...; return }, then finally.
ResumeNotFound(id, response) ==
    /\ error' = NotFoundMessage
    /\ currentWeather' = Null
    /\ forecast' = <<>>
    /\ stateConversionMessage' = ""
    /\ loading' = FALSE
    /\ calls' = callDone(id, response, "notfound")

\* A forecast body: setCurrentWeather, the alignment loop and setForecast; a
\* fault in the loop goes to the catch block with currentWeather already set.
ResumeData(id, response) ==
    LET aligned == forecast7Days(now, tz, response.forecastday)
    IN  /\ currentWeather' = currentWeatherOf(response)
        /\ loading' = FALSE
        /\ UNCHANGED stateConversionMessage
        /\ IF aligned.outcome = "throw"
           THEN /\ error' = FailedMessage
                /\ calls' = callDone(id, response, "failed")
                /\ UNCHANGED forecast
           ELSE /\ forecast' = aligned.forecast
                /\ calls' = callDone(id, response, "ok")
                /\ UNCHANGED error

\* A plausible slip: a rejected request is sent again.
FetchWeatherResume_Retry(id, response) ==
    IF response.kind = "rejected"
    THEN /\ requests' = Append(requests, [call |-> id, q |-> requests[calls[id].request].q])
         /\ calls' = [calls EXCEPT ![id].request = Len(requests) + 1]
         /\ UNCHANGED <<error, loading, currentWeather, forecast, stateConversionMessage>>
    ELSE /\ UNCHANGED requests
         /\ IF response.kind = "malformed" THEN ResumeFailed(id, response)
            ELSE IF response.kind = "error" THEN ResumeNotFound(id, response)
            ELSE ResumeData(id, response)

(***************************************************************************)
(* fetchWeather from the settling of its request to its end.  It sends     *)
(* nothing more.                                                           *)
(***************************************************************************)
FetchWeatherResume(id, response) ==
    /\ UNCHANGED requests
    /\ IF response.kind \in {"rejected", "malformed"} THEN ResumeFailed(id, response)
       ELSE IF response.kind = "error" THEN ResumeNotFound(id, response)
       ELSE ResumeData(id, response)

\* The provider request of an in-flight call settles.
Respond ==
    /\ \E id \in 1..Len(calls) :
         /\ calls[id].pc = "awaiting"
         /\ \E response \in Responses(requests[calls[id].request].q, localDate(now, tz)) :
                FetchWeatherResume(id, response)
    /\ UNCHANGED <<apiKey, mounted, tables>>
    /\ UNCHANGED <<resolverVars, alignerVars, clockVars>>
    /\ UNCHANGED <<timeVars, searchBarVars, weekVars>>

-----------------------------------------------------------------------------
(* The time of day (pages/Homepage.jsx: getTimeOfDay, cycleTimeOfDay and   *)
(* the timeOfDay effect).  fetchWeather reads and writes none of this      *)
(* state, and these handlers none of fetchWeather's.                       *)

\* Clicks on the time-of-day button.
MaxClicks == 5
\* Hours the clock advances while the page is open.
MaxTicks == 2

\* testTime === null
NullTime == 0 - 1

\* new Date().getHours(): the local hour of the clock.
getHours(t, offset) == (t + offset) % 24

\* A plausible slip: the morning bound written hour <= 12.
getTimeOfDay_NoonIsMorning(test, clock, offset) ==
    LET hour == IF test # NullTime THEN test ELSE getHours(clock, offset)
    IN  IF hour >= 6 /\ hour <= 12 THEN "morning"
        ELSE IF hour >= 12 /\ hour < 17 THEN "afternoon"
        ELSE IF hour >= 17 /\ hour < 20 THEN "evening"
        ELSE "night"

\* getTimeOfDay() with testTime = test, the clock at instant clock.
getTimeOfDay(test, clock, offset) ==
    LET hour == IF test # NullTime THEN test ELSE getHours(clock, offset)
    IN  IF hour >= 6 /\ hour < 12 THEN "morning"
        ELSE IF hour >= 12 /\ hour < 17 THEN "afternoon"
        ELSE IF hour >= 17 /\ hour < 20 THEN "evening"
        ELSE "night"

\* const times = [8, 14, 18, 22]
times == <<8, 14, 18, 22>>

\* arr.findIndex(x => x === v), counted from 0; -1 when there is none.
findIndex(arr, v) ==
    IF \E k \in 1..Len(arr) : arr[k] = v
    THEN (CHOOSE k \in 1..Len(arr) :
             arr[k] = v /\ \A j \in 1..(k - 1) : arr[j] # v) - 1
    ELSE 0 - 1

\* The value cycleTimeOfDay passes to setTestTime.
nextTestTime(test, clock, offset) ==
    LET current == IF test # NullTime THEN test ELSE getHours(clock, offset)
        currentIndex == findIndex(times, current)
        nextIndex == (currentIndex + 1) % Len(times)
    IN  times[nextIndex + 1]

\* tCall before getTimeOfDay has been called.
NoTimeCall == [result |-> "none"]

\* setTimeOfDay(getTimeOfDay()) in a render whose testTime is test.
timeOfDayEffect(test) ==
    /\ timeOfDay' = getTimeOfDay(test, now, tz)
    /\ tCall' = [testTime |-> test, hour |-> getHours(now, tz),
                 result |-> getTimeOfDay(test, now, tz)]
    /\ tShown' = Append(tShown, getTimeOfDay(test, now, tz))

\* The effect's first run, after the first render.
MountTimeOfDay ==
    /\ tShown = <<>>
    /\ timeOfDayEffect(testTime)
    /\ UNCHANGED testTime
    /\ UNCHANGED <<tables, resolverVars, alignerVars, clockVars, homepageVars>>
    /\ UNCHANGED <<searchBarVars, weekVars>>

\* onClick={cycleTimeOfDay}, and the effect that follows a change of testTime.
CycleTimeOfDay ==
    /\ tShown # <<>>
    /\ Len(tShown) <= MaxClicks
    /\ testTime' = nextTestTime(testTime, now, tz)
    /\ IF testTime' # testTime
       THEN timeOfDayEffect(testTime')
       ELSE UNCHANGED <<timeOfDay, tCall, tShown>>
    /\ UNCHANGED <<tables, resolverVars, alignerVars, clockVars, homepageVars>>
    /\ UNCHANGED <<searchBarVars, weekVars>>

\* An hour passes.
Tick ==
    /\ now < BaseDay * 24 + 23 + MaxTicks
    /\ now' = now + 1
    /\ UNCHANGED <<tz, tables, resolverVars, alignerVars, homepageVars>>
    /\ UNCHANGED <<timeVars, searchBarVars, weekVars>>

-----------------------------------------------------------------------------
(* The validating SearchBar (components/ForecastGrid.jsx, second half).    *)

\* Clicks and Enter presses handled.
MaxSubmits == 2

\* Texts typed into the input, before padding.
QueryCores ==
    { <<>>,
      <<"P", "a", "r", "i", "s">>,
      <<"r", "i">>,
      <<"a", "1">>,
      <<"3", ".", "1", "4">>,
      <<"(", "5", ")", " ", "1">>,
      <<"-">> }
\* Whitespace typed before and after them.
QueryPads == {<<>>, <<" ">>, <<"\t", " ">>}
QueryTexts ==
    {pre \o core \o post : pre \in QueryPads, post \in QueryPads, core \in QueryCores}

\* Keys pressed in the input.
Keys == {"Enter", "a"}

\* SearchBar's own isNumericOnly.
SearchBar_isNumericOnly(input) ==
    LET cleanedInput == removeWhitespace(input)
    IN  /\ \A i \in 1..Len(cleanedInput) : cleanedInput[i] \in DigitChars \cup NumericPunctChars
        /\ \E i \in 1..Len(cleanedInput) : cleanedInput[i] \in DigitChars

\* A plausible slip: the text passed as typed, as the other SearchBar does.
handleSearch_Untrimmed ==
    LET trimmedQuery == trim(query)
    IN  /\ searched' = IF trimmedQuery # <<>> /\ ~SearchBar_isNumericOnly(trimmedQuery)
                       THEN Append(searched, query)
                       ELSE searched
        /\ UNCHANGED query

\* handleSearch: onSearch(trimmedQuery) when the text passes validation.
handleSearch ==
    LET trimmedQuery == trim(query)
    IN  /\ searched' = IF trimmedQuery # <<>> /\ ~SearchBar_isNumericOnly(trimmedQuery)
                       THEN Append(searched, trimmedQuery)
                       ELSE searched
        /\ UNCHANGED query

\* onChange={(e) => setQuery(e.target.value)}
ChangeQuery ==
    /\ \E text \in QueryTexts : query' = text
    /\ UNCHANGED <<searched, sbEvents>>
    /\ UNCHANGED <<tables, resolverVars, alignerVars, clockVars, homepageVars>>
    /\ UNCHANGED <<timeVars, weekVars>>

\* onClick={handleSearch}
ClickSearch ==
    /\ sbEvents < MaxSubmits
    /\ sbEvents' = sbEvents + 1
    /\ handleSearch
    /\ UNCHANGED <<tables, resolverVars, alignerVars, clockVars, homepageVars>>
    /\ UNCHANGED <<timeVars, weekVars>>

\* onKeyPress={handleKeyPress}: if (e.key === 'Enter') handleSearch()
KeyPress ==
    /\ sbEvents < MaxSubmits
    /\ \E key \in Keys :
          IF key = "Enter"
          THEN sbEvents' = sbEvents + 1 /\ handleSearch
          ELSE UNCHANGED <<query, searched, sbEvents>>
    /\ UNCHANGED <<tables, resolverVars, alignerVars, clockVars, homepageVars>>
    /\ UNCHANGED <<timeVars, weekVars>>

-----------------------------------------------------------------------------
(* generateFullWeekForecast (the Monday-to-Sunday variant of the Homepage). *)

daysOfWeek ==
    <<"Monday", "Tuesday", "Wednesday", "Thursday", "Friday", "Saturday", "Sunday">>

\* today.getDay(): 0 = Sunday ... 6 = Saturday, of the local date.
getDay(t, offset) == (localDate(t, offset) + 4) % 7

\* currentDay === 0 ? 6 : (currentDay - 1)
daysBackToMonday(clock, offset) ==
    IF getDay(clock, offset) = 0 THEN 6 ELSE getDay(clock, offset) - 1

\* The local calendar date targetDate.toDateString() names, index from 0.
weekTargetDate(clock, offset, index) ==
    localDate(clock, offset) - daysBackToMonday(clock, offset) + index

\* The local calendar date new Date(day.date).toDateString() names.
apiDateString(date, offset) == localDate(parseDate(date), offset)

\* apiForecastData.find(...): the position of the first record whose date
\* string equals the target's; 0 when there is none.
weekApiData(clock, offset, data, index) ==
    LET hits == {k \in 1..Len(data) :
                    apiDateString(data[k].date, offset) = weekTargetDate(clock, offset, index)}
    IN  IF hits = {} THEN 0 ELSE CHOOSE k \in hits : \A j \in hits : k <= j

\* The placeholder branch: const conditions, const icons.
conditions == <<"Sunny", "Partly Cloudy", "Cloudy", "Light Rain">>
icons ==
    <<"//cdn.weatherapi.com/weather/64x64/day/116.png",
      "//cdn.weatherapi.com/weather/64x64/day/119.png",
      "//cdn.weatherapi.com/weather/64x64/day/296.png",
      "//cdn.weatherapi.com/weather/64x64/day/113.png">>

\* The placeholder entry from two draws of Math.random(); temperatures in
\* tenths: baseTemp 65, tempVariation = random * 20 - 10.
weekPlaceholder(label, draw1, draw2) ==
    LET baseTemp == 650
        tempVariation == (draw1 * 200) \div RandDenom - 100
        randomIndex == RandomIndex(draw2, Len(conditions))
    IN  [day |-> label,
         temp |-> MathRound(baseTemp + tempVariation),
         condition |-> conditions[randomIndex + 1],
         icon |-> "https:" \o icons[randomIndex + 1]]

\* generateFullWeekForecast(apiForecastData); draws[2i+1] and draws[2i+2]
\* are the values Math.random() gives in entry i when it is a placeholder.
generateFullWeekForecast(clock, offset, data, draws) ==
    [k \in 1..7 |->
        LET found == weekApiData(clock, offset, data, k - 1)
        IN  IF found # 0
            THEN forecastEntry(daysOfWeek[k], data[found])
            ELSE weekPlaceholder(daysOfWeek[k], draws[2 * k - 1], draws[2 * k])]

\* Sequences of values of Math.random().
RandomStreams ==
    {[k \in 1..14 |-> (start + step * k) % RandDenom] :
        start \in {0, 5, RandDenom - 1}, step \in {1, 5}}

\* Instants the clock is read at: every weekday, early, midday and late.
WeekClockInstants == {(BaseDay + d) * 24 + h : d \in 0..6, h \in {0, 12, 23}}

\* Provider lists: none, and runs of dates from today or from a week ago.
WeekDayLists(today) ==
    {<<>>} \cup
    UNION {{Ascending(today - s, n), Reversed(Ascending(today - s, n))} :
           s \in {0, 6}, n \in {1, 3, 10}}

\* wOut before generateFullWeekForecast has run.
NoWeek == <<>>

-----------------------------------------------------------------------------
(* Specifications.                                                         *)

\* Calls the repeated-call harness makes in all.
MaxSeqCalls == 3

\* Values of the variables a specification does not use.
ResolverIdle == rInput = <<>> /\ rResult = NotCalled /\ rFirst = NotCalled /\ rTrace = <<>>
AlignerIdle == aDays = <<>> /\ aOut = NotAligned
TimeIdle == testTime = NullTime /\ timeOfDay = "" /\ tCall = NoTimeCall /\ tShown = <<>>
SearchBarIdle == query = <<>> /\ searched = <<>> /\ sbEvents = 0
WeekIdle == wDays = <<>> /\ wOut = NoWeek
WidgetsIdle == TimeIdle /\ SearchBarIdle /\ WeekIdle
HomepageIdle ==
    /\ apiKey = TRUE
    /\ currentWeather = Null
    /\ forecast = <<>>
    /\ error = ""
    /\ loading = FALSE
    /\ stateConversionMessage = ""
    /\ mounted = FALSE
    /\ calls = <<>>
    /\ requests = <<>>

\* UTC offsets the Homepage is run at.
HomepageTimeZones == {0 - 5, 0}

(* The Homepage: mount, searches and provider responses in any interleaving. *)
Init ==
    /\ tables = SourceTables
    /\ ResolverIdle
    /\ AlignerIdle
    /\ tz \in HomepageTimeZones
    /\ now = BaseDay * 24 + 12
    /\ apiKey \in BOOLEAN
    /\ currentWeather = Null
    /\ forecast = <<>>
    /\ error = ""
    /\ loading = FALSE
    /\ stateConversionMessage = ""
    /\ mounted = FALSE
    /\ calls = <<>>
    /\ requests = <<>>
    /\ WidgetsIdle

Next == Mount \/ Search \/ Respond

Spec == Init /\ [][Next]_vars

(* The Homepage when every provider request settles: the promise of fetch  *)
(* (and of res.json()) resolves or rejects, after which the rest of        *)
(* fetchWeather runs.                                                      *)
SpecLive == Init /\ [][Next]_vars /\ WF_vars(Respond)

(* processSearchInput applied to every search text and random draw.        *)
InitResolve ==
    /\ tables = SourceTables
    /\ rInput \in SearchInputs
    /\ rResult = NotCalled
    /\ rFirst = NotCalled
    /\ rTrace = <<>>
    /\ tz = 0
    /\ now = BaseDay * 24
    /\ AlignerIdle
    /\ HomepageIdle
    /\ WidgetsIdle

CallProcessSearchInput ==
    /\ \E random \in RandomDraws :
          /\ rResult' = processSearchInput(rInput, random)
          /\ tables' = tablesAfterCall(rInput, random)
    /\ UNCHANGED <<rInput, rFirst, rTrace, alignerVars, clockVars, homepageVars>>
    /\ UNCHANGED <<timeVars, searchBarVars, weekVars>>

NextResolve == CallProcessSearchInput

SpecResolve == InitResolve /\ [][NextResolve]_vars

(* processSearchInput called repeatedly on one text, with calls on other   *)
(* texts in between, as overlapping searches make them.                    *)

\* Texts that are resolved again.
RepeatCores ==
    { <<>>,
      <<"l", "a">>,
      <<"r", "i">>,
      <<"p", "a", "r", "i", "s">>,
      <<"3", ".", "1", "4">>,
      <<"c", "o", "n", "s", "t", "r", "u", "c", "t", "o", "r">> }
RepeatInputs ==
    {pre \o Cased(core, style) \o post :
        pre \in Pads, post \in Pads, core \in RepeatCores, style \in CaseStyles}
\* Texts of the calls made in between.
BetweenInputs == { <<"R", "I">>, <<"r", "o", "m", "e">> }

InitRepeat ==
    /\ tables = SourceTables
    /\ rInput \in RepeatInputs
    /\ rResult = NotCalled
    /\ rFirst = NotCalled
    /\ rTrace = <<>>
    /\ tz = 0
    /\ now = BaseDay * 24
    /\ AlignerIdle
    /\ HomepageIdle
    /\ WidgetsIdle

\* The first call on rInput.
FirstCall ==
    /\ rTrace = <<>>
    /\ \E random \in RandomDraws :
          /\ rFirst' = processSearchInput(rInput, random)
          /\ rResult' = processSearchInput(rInput, random)
          /\ tables' = tablesAfterCall(rInput, random)
    /\ rTrace' = <<rInput>>
    /\ UNCHANGED <<rInput, alignerVars, clockVars, homepageVars>>
    /\ UNCHANGED <<timeVars, searchBarVars, weekVars>>

\* A later call on rInput.
RepeatCall ==
    /\ rTrace # <<>>
    /\ Len(rTrace) < MaxSeqCalls
    /\ \E random \in RandomDraws :
          /\ rResult' = processSearchInput(rInput, random)
          /\ tables' = tablesAfterCall(rInput, random)
    /\ rTrace' = Append(rTrace, rInput)
    /\ UNCHANGED <<rInput, rFirst, alignerVars, clockVars, homepageVars>>
    /\ UNCHANGED <<timeVars, searchBarVars, weekVars>>

\* A call on another text; its result goes to another search.
BetweenCall ==
    /\ rTrace # <<>>
    /\ Len(rTrace) < MaxSeqCalls
    /\ \E other \in BetweenInputs \ {rInput}, random \in RandomDraws :
          /\ tables' = tablesAfterCall(other, random)
          /\ rTrace' = Append(rTrace, other)
    /\ UNCHANGED <<rInput, rFirst, rResult, alignerVars, clockVars, homepageVars>>
    /\ UNCHANGED <<timeVars, searchBarVars, weekVars>>

NextRepeat == FirstCall \/ RepeatCall \/ BetweenCall

SpecRepeat == InitRepeat /\ [][NextRepeat]_vars

(* The time of day: the effect's first run, clicks on the button and the   *)
(* clock, from every hour of the day.                                      *)
InitTime ==
    /\ tables = SourceTables
    /\ tz = 0
    /\ now \in {BaseDay * 24 + h : h \in 0..23}
    /\ ResolverIdle
    /\ AlignerIdle
    /\ HomepageIdle
    /\ WidgetsIdle

NextTime == MountTimeOfDay \/ CycleTimeOfDay \/ Tick

SpecTime == InitTime /\ [][NextTime]_vars

(* The validating SearchBar: typing, clicks and key presses.               *)
InitSearchBar ==
    /\ tables = SourceTables
    /\ tz = 0
    /\ now = BaseDay * 24
    /\ ResolverIdle
    /\ AlignerIdle
    /\ HomepageIdle
    /\ WidgetsIdle

NextSearchBar == ChangeQuery \/ ClickSearch \/ KeyPress

SpecSearchBar == InitSearchBar /\ [][NextSearchBar]_vars

(* generateFullWeekForecast applied to every provider list, clock and      *)
(* offset.                                                                 *)
InitWeek ==
    /\ tables = SourceTables
    /\ tz \in TimeZones
    /\ now \in WeekClockInstants
    /\ wDays \in WeekDayLists(localDate(now, tz))
    /\ wOut = NoWeek
    /\ ResolverIdle
    /\ AlignerIdle
    /\ HomepageIdle
    /\ TimeIdle
    /\ SearchBarIdle

RunFullWeek ==
    /\ wOut = NoWeek
    /\ \E draws \in RandomStreams :
          wOut' = generateFullWeekForecast(now, tz, wDays, draws)
    /\ UNCHANGED <<tables, wDays, resolverVars, alignerVars, clockVars, homepageVars>>
    /\ UNCHANGED <<timeVars, searchBarVars>>

NextWeek == RunFullWeek

SpecWeek == InitWeek /\ [][NextWeek]_vars

(* The alignment loop applied to every provider list, clock and offset.    *)
InitAlign ==
    /\ tables = SourceTables
    /\ tz \in TimeZones
    /\ now \in ClockInstants
    /\ aDays \in DayLists(localDate(now, tz)) \cup {<<>>}
    /\ aOut = NotAligned
    /\ ResolverIdle
    /\ HomepageIdle
    /\ WidgetsIdle

RunAlignment ==
    /\ aOut = NotAligned
    /\ aOut' = forecast7Days(now, tz, aDays)
    /\ UNCHANGED <<tables, aDays, resolverVars, clockVars, homepageVars>>
    /\ UNCHANGED <<timeVars, searchBarVars, weekVars>>

NextAlign == RunAlignment

SpecAlign == InitAlign /\ [][NextAlign]_vars

-----------------------------------------------------------------------------
(* Properties of processSearchInput (SpecResolve).                         *)

\* The normalised form of the search text, as an object key.
rKey == Str(toLowerCase(trim(rInput)))
\* processSearchInput has been applied to rInput.
rCalled == rResult # NotCalled
\* The call returned an object (it did not raise).
rReturned == rResult.outcome = "return"
\* The members of an array.
Members(arr) == {arr[k] : k \in 1..Len(arr)}
\* The search text with whitespace removed.
rSolid == SelectSeq(rInput, LAMBDA c : c \notin {" ", "\t"})
\* The text is made of digits . , - + ( ) only, with at least one digit.
rLooksNumeric ==
    /\ \A k \in 1..Len(rSolid) :
          rSolid[k] \in {"0", "1", "2", "3", "4", "5", "6", "7", "8", "9",
                         ".", ",", "-", "+", "(", ")"}
    /\ \E k \in 1..Len(rSolid) :
          rSolid[k] \in {"0", "1", "2", "3", "4", "5", "6", "7", "8", "9"}

\* C1: for every input whose trimmed, lowercased form is a key of
\* CITY_NICKNAMES, processSearchInput returns type 'nickname', city equal to
\* the table's value for that key, and original equal to the trimmed input in
\* the letter case it was typed in.
C1_NicknameResolved ==
    (rCalled /\ rKey \in DOMAIN CITY_NICKNAMES) =>
        /\ rReturned
        /\ rResult.value.type = "nickname"
        /\ rResult.value.city = CITY_NICKNAMES[rKey]
        /\ "original" \in DOMAIN rResult.value
        /\ rResult.value.original = Str(trim(rInput))

\* C1 witness: a nickname typed with padding and capitals has been resolved.
C1_Witness ==
    /\ rCalled
    /\ rKey \in DOMAIN CITY_NICKNAMES
    /\ trim(rInput) # rInput
    /\ toLowerCase(rInput) # rInput
    /\ rResult.value.type = "nickname"

\* C2 (as claimed): for every input whose trimmed, lowercased form is a key of
\* STATE_CITIES, processSearchInput returns type 'state' and a city that is a
\* member of that key's candidate list, whatever Math.random() yields.
C2_StateResolved_Original ==
    (rCalled /\ rKey \in DOMAIN STATE_CITIES) =>
        /\ rReturned
        /\ rResult.value.type = "state"
        /\ rResult.value.city \in Members(STATE_CITIES[rKey])

\* C2 (amended): the same for every key of STATE_CITIES that is not also a
\* key of CITY_NICKNAMES; original is the trimmed input.
C2_StateResolved ==
    (rCalled /\ rKey \in DOMAIN STATE_CITIES /\ rKey \notin DOMAIN CITY_NICKNAMES) =>
        /\ rReturned
        /\ rResult.value.type = "state"
        /\ rResult.value.city \in Members(STATE_CITIES[rKey])
        /\ rResult.value.city \notin NonStringValues

\* C2 witness: a state has been resolved to the last city of its list.
C2_Witness ==
    /\ rCalled
    /\ rKey \in DOMAIN STATE_CITIES
    /\ rKey \notin DOMAIN CITY_NICKNAMES
    /\ rResult.value.type = "state"
    /\ rResult.value.city = STATE_CITIES[rKey][Len(STATE_CITIES[rKey])]

\* C3: for every input that matches neither table key (trimmed, lowercased)
\* and is not numeric-only, processSearchInput returns type 'direct' with
\* city equal to the trimmed input in its original letter case, and no
\* original field.
C3_DirectPassthrough ==
    (/\ rCalled
     /\ rKey \notin DOMAIN CITY_NICKNAMES
     /\ rKey \notin DOMAIN STATE_CITIES
     /\ ~rLooksNumeric) =>
        /\ rReturned
        /\ rResult.value.type = "direct"
        /\ rResult.value.city = Str(trim(rInput))
        /\ "original" \notin DOMAIN rResult.value

\* C4: processSearchInput raises, and returns nothing, for every input that
\* with whitespace removed consists only of digits . , - + ( ) and has at
\* least one digit; no table has been read when it raises.
C4_NumericRejected ==
    (rCalled /\ rLooksNumeric) =>
        /\ rResult.outcome = "throw"
        /\ "value" \notin DOMAIN rResult
        /\ rResult.message = NumbersMessage
        /\ rResult.consulted = <<>>

\* C4 witness: a phone-number-like text (with parentheses and an inner space)
\* has been rejected.
C4_Witness ==
    /\ rCalled
    /\ rLooksNumeric
    /\ \E k \in 1..Len(rInput) : rInput[k] = "("
    /\ Len(rSolid) < Len(trim(rInput))
    /\ rResult.outcome = "throw"

\* C5 (as claimed): processSearchInput fails with an invalid-input error
\* whenever the input is empty or whitespace only; it never returns a result
\* for such input.
C5_BlankRejected_Original ==
    (rCalled /\ trim(rInput) = <<>>) => rResult.outcome = "throw"

\* C5 (amended): for an empty or whitespace-only input processSearchInput
\* does not fail: it returns type 'direct' with the empty string as city and
\* no original field.
C5_BlankPassedThrough ==
    (rCalled /\ trim(rInput) = <<>>) =>
        /\ rReturned
        /\ rResult.value.type = "direct"
        /\ rResult.value.city = ""
        /\ "original" \notin DOMAIN rResult.value

\* C5 witness: a whitespace-only text has gone through processSearchInput.
C5_Witness ==
    /\ rCalled
    /\ rInput # <<>>
    /\ trim(rInput) = <<>>
    /\ rReturned

-----------------------------------------------------------------------------
(* Properties of fetchWeather's sentinel bypass (Spec).                    *)

\* C6: a fetchWeather call with the sentinel 'auto:ip' skips resolution:
\* processSearchInput is not called, so no table is read and the numeric rule
\* is not applied; the call sets no conversion message; and the query it sends
\* to the provider is exactly 'auto:ip'.
C6_SentinelBypass ==
    \A id \in 1..Len(calls) :
        calls[id].input = "auto:ip" =>
            /\ ~calls[id].processed
            /\ ~calls[id].numericChecked
            /\ calls[id].consulted = <<>>
            /\ calls[id].message = ""
            /\ (apiKey => calls[id].request # 0)
            /\ (calls[id].request # 0 => requests[calls[id].request].q = "auto:ip")

\* C6 witness: the sentinel has been sent to the provider.
C6_Witness ==
    \E id \in 1..Len(calls) :
        /\ calls[id].input = "auto:ip"
        /\ calls[id].request # 0
        /\ requests[calls[id].request].q = "auto:ip"

-----------------------------------------------------------------------------
(* Properties of the alignment loop (SpecAlign).                           *)

\* The alignment has run on a non-empty provider list.
aAligned == aOut # NotAligned /\ aDays # <<>>
\* The browser's calendar date.
aToday == localDate(now, tz)
\* The provider's records dated today + i.
aRecordsFor(i) == {k \in 1..Len(aDays) : aDays[k].date = aToday + i}
\* Output entry i carries the data of provider record k.
aCarries(i, k) ==
    /\ aOut.forecast[i + 1].temp = MathRound(aDays[k].day.avgtemp_f)
    /\ aOut.forecast[i + 1].condition = aDays[k].day.condition.text
    /\ aOut.forecast[i + 1].icon = iconUrl(aDays[k].day.condition.icon)
\* The weekday that follows a weekday.
NextWeekday(name) ==
    LET k == CHOOSE j \in 1..7 : WeekdayNames[j] = name
    IN  WeekdayNames[(k % 7) + 1]

\* C7: for every non-empty provider list, of any length and order and over
\* any dates, the alignment loop produces exactly 7 entries, in the order of
\* the offsets 0..6 from today: 'Today' first, then consecutive weekdays.
C7_SevenEntries ==
    aAligned =>
        /\ aOut.outcome = "ok"
        /\ Len(aOut.forecast) = 7
        /\ aOut.forecast[1].day = "Today"
        /\ aOut.forecast[2].day = NextWeekday(weekdayOfDate(aToday))
        /\ \A k \in 3..7 : aOut.forecast[k].day = NextWeekday(aOut.forecast[k - 1].day)

\* C7 witness: a single-record list has been aligned to 7 entries.
C7_Witness ==
    /\ aAligned
    /\ Len(aDays) = 1
    /\ Len(aOut.forecast) = 7

\* C7 witness for the longest list: 14 records aligned to 7 entries.
C7_WitnessLong ==
    /\ aAligned
    /\ Len(aDays) = 14
    /\ Len(aOut.forecast) = 7

\* C8: for every offset i in 0..6 and every UTC offset of the browser, if the
\* provider's list has a record whose calendar date is today + i, output
\* entry i carries the rounded avgtemp_f and condition text of a record of
\* that date.
C8_DateMatched ==
    aAligned =>
        /\ aOut.outcome = "ok"
        /\ \A i \in 0..6 :
              aRecordsFor(i) # {} => \E k \in aRecordsFor(i) : aCarries(i, k)

\* C9: for every offset i in 0..6 for which the provider's list has no record
\* dated today + i, output entry i carries the temperature, condition and
\* icon of the last element of the list in input order.
C9_FallbackLast ==
    aAligned =>
        /\ aOut.outcome = "ok"
        /\ \A i \in 0..6 : aRecordsFor(i) = {} => aCarries(i, Len(aDays))

\* C10: entry 0 is labelled 'Today' and entry i (1..6) with the weekday name
\* of today + i days, whether the entry was date-matched or filled from the
\* fallback record, and whatever the date of the record that supplied the data.
C10_LabelsFromTarget ==
    aAligned =>
        /\ aOut.outcome = "ok"
        /\ \A i \in 0..6 :
              aOut.forecast[i + 1].day =
                  IF i = 0 THEN "Today" ELSE weekdayOfDate(aToday + i)

\* C10 witness: an aligned list where some entry past today was filled from a
\* record of another date.
C10_Witness ==
    /\ aAligned
    /\ aOut.outcome = "ok"
    /\ \E i \in 1..6 : aRecordsFor(i) = {} /\ aCarries(i, Len(aDays))
    /\ aDays[Len(aDays)].date # aToday + 6


\* The icon URL the normalisation rule gives for a provider icon field:
\* 'https:' put before a protocol-relative path, any other string as it is,
\* nothing for a field that is not a string.
NoIconUrl == "<null>"
aNormalisedIcon(p) ==
    IF p = <<Undefined>> THEN NoIconUrl
    ELSE IF Len(p) >= 2 /\ p[1] = "/" /\ p[2] = "/" THEN "https:" \o Str(p)
    ELSE Str(p)

\* C11: the icon URL of every aligned entry is the icon path of the provider
\* record the entry was built from, with 'https:' prefixed only when the path
\* starts with '//'; a full https URL is passed through unchanged and a
\* missing icon yields no icon URL.
C11_IconNormalised ==
    aAligned =>
        /\ aOut.outcome = "ok"
        /\ \A i \in 0..6 :
              \E k \in 1..Len(aDays) :
                  /\ aOut.forecast[i + 1].temp = MathRound(aDays[k].day.avgtemp_f)
                  /\ aOut.forecast[i + 1].condition = aDays[k].day.condition.text
                  /\ aOut.forecast[i + 1].icon = aNormalisedIcon(aDays[k].day.condition.icon)


-----------------------------------------------------------------------------
(* Properties of repeated calls of processSearchInput (SpecRepeat).        *)

\* The first call on rInput has been made.
rRepeated == rFirst # NotCalled
\* A call's result went through the state table.
stateMatch(res) == res.outcome = "return" /\ res.value.type = "state"
\* Two calls ended the same way: the same returned object or the same error.
sameResult(a, b) ==
    /\ a.outcome = b.outcome
    /\ IF a.outcome = "return" THEN a.value = b.value ELSE a.message = b.message
\* The texts of the calls made so far that were not rInput.
rBetween == {k \in 1..Len(rTrace) : rTrace[k] # rInput}

\* C12: when a text that does not resolve through the state table is resolved
\* again, whatever the random draws and whatever calls were made in between,
\* the latest result equals the first one (same city, type and original, or
\* the same error).
C12_RepeatIdentical ==
    (rRepeated /\ ~stateMatch(rFirst)) => sameResult(rResult, rFirst)

\* A direct text resolved, another text resolved, then the first one again.
C12_Witness ==
    /\ rRepeated
    /\ rFirst.outcome = "return"
    /\ rFirst.value.type = "direct"
    /\ Len(rTrace) >= 3
    /\ rTrace[2] # rInput
    /\ rTrace[3] = rInput
    /\ sameResult(rResult, rFirst)

\* C13: after any sequence of calls the nickname table and the state table,
\* with every candidate list, are as in the source, and the latest result on
\* rInput is what the function gives for rInput, these tables and some draw.
C13_TablesUnchanged ==
    /\ tables = SourceTables
    /\ rRepeated =>
          \E random \in RandomDraws : rResult = processSearchInput(rInput, random)

\* A state has been resolved three times or with other calls in between.
C13_Witness ==
    /\ rRepeated
    /\ stateMatch(rFirst)
    /\ Len(rTrace) >= 3
    /\ rBetween # {}
    /\ rTrace[Len(rTrace)] = rInput
    /\ rResult # rFirst
    /\ tables = SourceTables

-----------------------------------------------------------------------------
(* Order of the table lookups (SpecResolve).                               *)

\* C19: a text whose lowercased form is a key of both tables resolves through
\* the nickname table: type 'nickname', the nickname's city, the state table
\* not read, and the city is none of the state's candidates.
C19_NicknameFirst ==
    (rCalled /\ rKey \in DOMAIN CITY_NICKNAMES /\ rKey \in DOMAIN STATE_CITIES) =>
        /\ rReturned
        /\ rResult.value.type = "nickname"
        /\ rResult.value.city = CITY_NICKNAMES[rKey]
        /\ rResult.value.city \notin Members(STATE_CITIES[rKey])
        /\ rResult.consulted = <<"CITY_NICKNAMES">>

\* 'la' in some spelling has been resolved to Los Angeles.
C19_Witness ==
    /\ rCalled
    /\ rKey = "la"
    /\ rInput # <<"l", "a">>
    /\ rReturned
    /\ rResult.value.city = "Los Angeles"
    /\ rResult.value.type = "nickname"


-----------------------------------------------------------------------------
(* Properties of fetchWeather's failure handling (Spec).                   *)

\* The calls whose provider request is outstanding.
hAwaiting == {id \in 1..Len(calls) : calls[id].pc = "awaiting"}
\* This step starts a fetchWeather call.
hStarts == Len(calls') = Len(calls) + 1
\* This step is the end of call id, whose request has settled.
hCompletes(id) == calls[id].pc = "awaiting" /\ calls'[id].pc = "done"
\* The requests sent by call id.
hRequestsOf(id) == {k \in 1..Len(requests) : requests[k].call = id}

\* C14: a step in which a fetchWeather call has its input rejected by
\* processSearchInput sets error to the raised message, sends no request,
\* ends with loading false and leaves currentWeather and forecast as they
\* were.
C14_RejectedStep ==
    (hStarts /\ calls'[Len(calls')].end = "invalid") =>
        /\ error' = NumbersMessage
        /\ requests' = requests
        /\ calls'[Len(calls')].request = 0
        /\ calls'[Len(calls')].pc = "done"
        /\ loading' = FALSE
        /\ currentWeather' = currentWeather
        /\ forecast' = forecast
C14_InvalidInputHandled == [][C14_RejectedStep]_vars

\* A numeric text was rejected while weather and forecast were displayed.
C14_Witness ==
    /\ calls # <<>>
    /\ calls[Len(calls)].end = "invalid"
    /\ calls[Len(calls)].request = 0
    /\ error = NumbersMessage
    /\ ~loading
    /\ currentWeather # Null
    /\ Len(forecast) = 7

\* C15: whenever the request of some call is outstanding, loading is true.
C15_LoadingWhileOutstanding == hAwaiting # {} => loading

\* C16: a failure outside input validation leaves a message when the call
\* ends: the API-key message without a key, 'City not found' on a provider
\* error, 'Failed to fetch weather data.' on a rejected request or a body
\* that cannot be used.
C16_FailureStep ==
    /\ (hStarts /\ ~apiKey) => error' = ApiKeyMessage
    /\ \A id \in 1..Len(calls) :
          hCompletes(id) =>
             /\ calls'[id].response.kind = "error" => error' = NotFoundMessage
             /\ calls'[id].response.kind \in {"rejected", "malformed"} =>
                   error' = FailedMessage
             /\ calls'[id].end # "ok" => error' # ""
C16_FailuresReported == [][C16_FailureStep]_vars

\* A rejected request has been reported.
C16_Witness ==
    \E id \in 1..Len(calls) :
        /\ calls[id].pc = "done"
        /\ calls[id].response.kind = "rejected"
        /\ error = FailedMessage
        /\ ~loading

\* C17: when a call ends on a forecast body whose forecastday list is empty,
\* the alignment faults, forecast keeps its value and error is 'Failed to
\* fetch weather data.'.
C17_EmptyListStep ==
    \A id \in 1..Len(calls) :
        (/\ hCompletes(id)
         /\ calls'[id].response.kind = "data"
         /\ calls'[id].response.forecastday = <<>>) =>
            /\ forecast7Days(now, tz, <<>>).outcome = "throw"
            /\ forecast' = forecast
            /\ error' = FailedMessage
            /\ calls'[id].end = "failed"
            /\ loading' = FALSE
C17_EmptyListFaults == [][C17_EmptyListStep]_vars

\* A body with an empty list has been received and reported, with no
\* forecast stored.
C17_Witness ==
    \E id \in 1..Len(calls) :
        /\ calls[id].response.kind = "data"
        /\ calls[id].response.forecastday = <<>>
        /\ calls[id].end = "failed"
        /\ error = FailedMessage
        /\ forecast = <<>>

\* C18: no call has sent more than one request, and a request is sent only
\* by the step that starts a call, never by a step that handles a response.
C18_RequestStep ==
    /\ \A id \in 1..Len(calls) : Cardinality(hRequestsOf(id)) <= 1
    /\ requests' # requests =>
          /\ hStarts
          /\ requests' = Append(requests, requests'[Len(requests')])
          /\ requests'[Len(requests')].call = Len(calls')
C18_SingleAttempt == [][C18_RequestStep]_vars

\* A request failed or came back with an error, and it is still the only one
\* of its call.
C18_Witness ==
    \E id \in 1..Len(calls) :
        /\ calls[id].pc = "done"
        /\ calls[id].response.kind \in {"rejected", "error"}
        /\ Cardinality(hRequestsOf(id)) = 1
        /\ Len(requests) = 1

\* C20: when a call ends on a provider error while no other call is in
\* flight, the state is: error 'City not found', currentWeather null,
\* forecast empty, conversion message empty, loading false.
C20_NotFoundStep ==
    \A id \in 1..Len(calls) :
        (/\ hCompletes(id)
         /\ calls'[id].response.kind = "error"
         /\ hAwaiting = {id}) =>
            /\ error' = NotFoundMessage
            /\ currentWeather' = Null
            /\ forecast' = <<>>
            /\ stateConversionMessage' = ""
            /\ loading' = FALSE
C20_NotFoundState == [][C20_NotFoundStep]_vars

\* A search that had set a conversion message ended on a provider error
\* after weather had been displayed.
C20_Witness ==
    \E id \in 1..Len(calls) :
        /\ hAwaiting = {}
        /\ id > 1
        /\ calls[1].end = "ok"
        /\ calls[id].response.kind = "error"
        /\ calls[id].message # ""
        /\ stateConversionMessage = ""
        /\ error = NotFoundMessage
        /\ currentWeather = Null
        /\ forecast = <<>>
        /\ ~loading


-----------------------------------------------------------------------------
(* Termination of the loading state (SpecLive).                            *)

\* C21: given that every provider request settles, loading is false whenever
\* no call is in flight, however the calls ended, and whenever loading is
\* true it becomes false later.
C21_LoadingSettles ==
    /\ [](hAwaiting = {} => ~loading)
    /\ loading ~> ~loading

\* Calls have ended in two different ways, one of them after its request
\* settled, and loading is false with nothing in flight.
C21_Witness ==
    /\ Len(calls) >= 2
    /\ hAwaiting = {}
    /\ ~loading
    /\ calls[1].end # calls[2].end
    /\ calls[1].request # 0


-----------------------------------------------------------------------------
(* The returned city (SpecResolve).                                        *)

\* The values written in the nickname table.
NicknameCities == {CITY_NICKNAMES[k] : k \in DOMAIN CITY_NICKNAMES}
\* The members of the candidate lists written in the state table.
StateCandidates == UNION {Members(STATE_CITIES[k]) : k \in DOMAIN STATE_CITIES}

\* C28: whenever processSearchInput returns, the city is a string, and it is
\* a value of the nickname table, a candidate of the state table or the
\* trimmed input.
C28_CityIsTableValueOrInput ==
    (rCalled /\ rReturned) =>
        /\ rResult.value.city \notin NonStringValues
        /\ rResult.value.city \in
              NicknameCities \cup StateCandidates \cup {Str(trim(rInput))}


-----------------------------------------------------------------------------
(* Overlapping searches and the displayed data (Spec).                     *)

\* The call issued last.
hLast == calls[Len(calls)]
\* Some call sent its request while the request of an earlier one was
\* outstanding.
hOverlapped ==
    \E id \in 1..Len(calls) : calls[id].overlaps /\ calls[id].request # 0
\* The forecast the alignment makes of a response.
hForecastOf(response) == forecast7Days(now, tz, response.forecastday)
\* What is displayed is what the call issued last produced.
hShowsLast ==
    /\ hLast.end = "ok" =>
          /\ currentWeather = currentWeatherOf(hLast.response)
          /\ forecast = hForecastOf(hLast.response).forecast
          /\ error = ""
          /\ stateConversionMessage = hLast.message
    /\ hLast.end = "notfound" =>
          /\ currentWeather = Null
          /\ forecast = <<>>
          /\ error = NotFoundMessage
          /\ stateConversionMessage = ""
    /\ hLast.end = "failed" =>
          /\ error = FailedMessage
          /\ stateConversionMessage = hLast.message
          /\ hLast.response.kind = "data" =>
                currentWeather = currentWeatherOf(hLast.response)
    /\ hLast.end = "invalid" =>
          /\ error = NumbersMessage
          /\ stateConversionMessage = ""

\* C26: once every call has completed after two or more searches
\* overlapped, currentWeather, forecast, error and the conversion message
\* are those of the search issued last.
C26_LastIssuedWins == (hAwaiting = {} /\ hOverlapped) => hShowsLast

\* Searches made one after the other: the displayed data is that of the last.
C26_SequentialShowsLast ==
    (hAwaiting = {} /\ calls # <<>> /\ ~hOverlapped
     /\ \A id \in 1..Len(calls) : ~calls[id].overlaps) => hShowsLast

\* C27: currentWeather and forecast are both empty, or both are what one
\* response, received by a call that has ended, gives.
C27_SameResponse ==
    \/ currentWeather = Null /\ forecast = <<>>
    \/ \E id \in 1..Len(calls) :
          /\ calls[id].pc = "done"
          /\ calls[id].response.kind = "data"
          /\ currentWeather = currentWeatherOf(calls[id].response)
          /\ hForecastOf(calls[id].response).outcome = "ok"
          /\ forecast = hForecastOf(calls[id].response).forecast


-----------------------------------------------------------------------------
(* Properties of the validating SearchBar (SpecSearchBar).                 *)

\* A text is made of digits . , - + ( ) and whitespace only, with a digit.
qLooksNumeric(text) ==
    /\ \A k \in 1..Len(text) :
          text[k] \in {"0", "1", "2", "3", "4", "5", "6", "7", "8", "9",
                       ".", ",", "-", "+", "(", ")", " ", "\t", "\n"}
    /\ \E k \in 1..Len(text) :
          text[k] \in {"0", "1", "2", "3", "4", "5", "6", "7", "8", "9"}
\* A text with the whitespace at both ends taken off.
qTrimmed(text) ==
    LET solid == {k \in 1..Len(text) : text[k] \notin {" ", "\t", "\n"}}
    IN  IF solid = {} THEN <<>>
        ELSE LET first == CHOOSE k \in solid : \A j \in solid : k <= j
                 last == CHOOSE k \in solid : \A j \in solid : j <= k
             IN  [k \in 1..(last - first + 1) |-> text[first + k - 1]]
\* This step handles a click or an Enter press.
qSubmits == sbEvents' = sbEvents + 1

\* C22: a click or Enter press calls onSearch once, with the trimmed text,
\* when the text is non-empty after trimming and not numeric-only, and
\* otherwise calls nothing and changes neither the text nor anything else;
\* onSearch is called by no other step.
C22_SubmitStep ==
    /\ qSubmits =>
          /\ query' = query
          /\ IF qTrimmed(query) # <<>> /\ ~qLooksNumeric(query)
             THEN searched' = Append(searched, qTrimmed(query))
             ELSE searched' = searched
    /\ searched' # searched => qSubmits
C22_ValidatedSubmit == [][C22_SubmitStep]_vars

\* Of two clicks or Enter presses one called onSearch, with a text that was
\* typed with padding, and the other was on a numeric or blank text.
C22_Witness ==
    /\ sbEvents >= 2
    /\ Len(searched) = 1
    /\ searched[1] = <<"P", "a", "r", "i", "s">>
    /\ query # qTrimmed(query)
    /\ (qTrimmed(query) = <<>> \/ qLooksNumeric(query))

-----------------------------------------------------------------------------
(* Properties of generateFullWeekForecast (SpecWeek).                      *)

\* generateFullWeekForecast has run.
wRan == wOut # NoWeek
\* The Monday of the Monday-to-Sunday week of the browser's calendar date
\* (1970-01-05, day 4, was a Monday).
wMonday == localDate(now, tz) - ((localDate(now, tz) + 3) % 7)
\* The provider's records dated date.
wRecordsFor(date) == {k \in 1..Len(wDays) : wDays[k].date = date}

\* C23: the result has 7 entries labelled Monday to Sunday in order, entry k
\* standing for the date k days after the week's Monday, and an entry whose
\* date has a record in the provider's list carries such a record's
\* temperature and condition.
C23_FullWeek ==
    wRan =>
        /\ Len(wOut) = 7
        /\ \A k \in 0..6 :
              /\ wOut[k + 1].day = weekdayOfDate(wMonday + k)
              /\ wOut[k + 1].day =
                    <<"Monday", "Tuesday", "Wednesday", "Thursday", "Friday",
                      "Saturday", "Sunday">>[k + 1]
              /\ wRecordsFor(wMonday + k) # {} =>
                    \E r \in wRecordsFor(wMonday + k) :
                        /\ wOut[k + 1].temp = MathRound(wDays[r].day.avgtemp_f)
                        /\ wOut[k + 1].condition = wDays[r].day.condition.text

\* West of Greenwich excluded: the result is as C23 says.
C23_FullWeekEastOfGreenwich == tz >= 0 => C23_FullWeek

-----------------------------------------------------------------------------
(* Properties of the time of day (SpecTime).                               *)

\* The period of an hour of the day.
PeriodOfHour(h) ==
    CASE h \in 6..11 -> "morning"
      [] h \in 12..16 -> "afternoon"
      [] h \in 17..19 -> "evening"
      [] h \in (20..23) \cup (0..5) -> "night"
\* The period that follows a period in the cycle.
NextPeriod(p) ==
    CASE p = "morning" -> "afternoon"
      [] p = "afternoon" -> "evening"
      [] p = "evening" -> "night"
      [] p = "night" -> "morning"

\* C24: every call of getTimeOfDay, at any hour 0..23, returns the period of
\* testTime when testTime is set and the period of the clock's hour when it
\* is not.
C24_PeriodOfHour ==
    tCall # NoTimeCall =>
        /\ tCall.hour \in 0..23
        /\ tCall.result =
              PeriodOfHour(IF tCall.testTime # NullTime THEN tCall.testTime
                           ELSE tCall.hour)

\* getTimeOfDay was called with testTime set while the clock was in another
\* period.
C24_Witness ==
    /\ tCall # NoTimeCall
    /\ tCall.testTime # NullTime
    /\ tCall.result = PeriodOfHour(tCall.testTime)
    /\ tCall.result # PeriodOfHour(tCall.hour)
    /\ timeOfDay = tCall.result

\* C25: every click shows the period that follows the one shown before it,
\* and the period shown after four clicks is the one shown before them.
C25_CycleAdvances ==
    /\ \A k \in 2..Len(tShown) : tShown[k] = NextPeriod(tShown[k - 1])
    /\ \A k \in 5..Len(tShown) : tShown[k] = tShown[k - 4]

\* From the second click on, every click shows the next period.
C25_CycleAfterFirstClick ==
    /\ \A k \in 3..Len(tShown) : tShown[k] = NextPeriod(tShown[k - 1])
    /\ \A k \in 6..Len(tShown) : tShown[k] = tShown[k - 4]

=============================================================================
